---- MODULE Spec2Model ----
(***************************************************************************)
(* Model of the background service worker of the HFF library availability  *)
(* extension (src/test_webopac.js, second generation, lines 621-1131):     *)
(* the session handshake (ensureSession), the request throttle             *)
(* (waitForRequestSlot / releaseRequestSlot), the query executor           *)
(* (searchFilm / performSearch / performSearchInternal), the result cache  *)
(* (searchCache) and its periodic sweep (cleanupCache).                    *)
(*                                                                         *)
(* JavaScript runs one task at a time.  Every action below is one task of  *)
(* the event loop together with all the promise continuations it makes     *)
(* runnable: an incoming CHECK_AVAILABILITY message, the completion of the *)
(* handshake fetch, the expiry of a delay() timer, the completion of a     *)
(* search fetch, the session expiry timer, the sweep interval.             *)
(***************************************************************************)
EXTENDS Integers, Sequences, FiniteSets, TLC

\* ------------------------------------------------------------------ bounds

\* Number of CHECK_AVAILABILITY calls that are issued.
MaxCalls == 3

\* Width of the throttle.  The source sets 8 (line 631; 5 in the first
\* generation, line 244); the model checks the same code with a small width.
MAX_CONCURRENT_REQUESTS == 1

\* Number of calls SpecExec and SpecTimed issue, and the number SpecExec lets
\* be in flight at a time.
ExecCalls == 2
MaxOverlap == 1

\* Number of sweep intervals SpecTimed lets pass.
MaxTicks == 14

\* Number of clock steps SpecCaller lets pass; a step is a third of the
\* caller's timeout.
CallerTicks == 4

\* Number of clock steps SpecSession lets pass; a step is half the lifetime
\* of a session.
SessionTicks == 4

\* Number of clock steps SpecPaced lets pass; a step is half the delay of
\* performSearch.
PacedTicks == 4

\* Number of film tiles of a page the content script scans, number of
\* CHECK_AVAILABILITY messages after which no further scan or scroll is
\* started, and number of debounce timers pending at a time.
MaxTiles == 2
MaxSent == 2
MaxTimers == 2

\* Number of matches the best one is selected from.
MaxMatches == 3

\* Number of words in the text of a match that is scored.
MaxWords == 4

\* Number of links on a page that is parsed on its own.
MaxAnchors == 2

\* ------------------------------------------------------- program constants

SESSION_LIFETIME_MS == 5 * 60 * 1000
CACHE_MAX_AGE_MS == 3600000
CLEANUP_INTERVAL_MS == 300000

\* The timeout of the content script's checkAvailability (part_002, line 359).
CALLER_TIMEOUT_MS == 90000

\* await delay(100) (line 769; delay(200) in the first generation, line 383).
REQUEST_DELAY_MS == 100

\* const MATCH_THRESHOLD = 70 (line 1036).
MATCH_THRESHOLD == 70

\* ------------------------------------------------------------------- data

Calls == 1..MaxCalls

\* Ids of handshake fetches in flight (one id per call is always enough).
HandshakeIds == 1..MaxCalls

\* Strings are sequences of characters.
NoYear == << >>
NO_YEAR_SENTINEL == <<"n", "o", "-", "y", "e", "a", "r">>

UPPER ==
  <<"A", "B", "C", "D", "E", "F", "G", "H", "I", "J", "K", "L", "M",
    "N", "O", "P", "Q", "R", "S", "T", "U", "V", "W", "X", "Y", "Z", "É">>
LOWER ==
  <<"a", "b", "c", "d", "e", "f", "g", "h", "i", "j", "k", "l", "m",
    "n", "o", "p", "q", "r", "s", "t", "u", "v", "w", "x", "y", "z", "é">>
DIGITS == {"0", "1", "2", "3", "4", "5", "6", "7", "8", "9"}

\* The lower-case letter of every upper-case letter.
LowerOf ==
  [ch \in {UPPER[i] : i \in DOMAIN UPPER} |->
     LOWER[CHOOSE i \in DOMAIN UPPER : UPPER[i] = ch]]

lowerChar(ch) == IF ch \in DOMAIN LowerOf THEN LowerOf[ch] ELSE ch

toLowerCase(str) == [i \in DOMAIN str |-> lowerChar(str[i])]

\* String.prototype.trim, for the blank.
RECURSIVE trimStart(_)
trimStart(str) ==
  IF str # << >> /\ Head(str) = " " THEN trimStart(Tail(str)) ELSE str

RECURSIVE trimEnd(_)
trimEnd(str) ==
  IF str # << >> /\ str[Len(str)] = " "
    THEN trimEnd(SubSeq(str, 1, Len(str) - 1)) ELSE str

trim(str) == trimEnd(trimStart(str))

\* String.prototype.startsWith.
startsWith(str, prefix) ==
  Len(prefix) <= Len(str) /\ SubSeq(str, 1, Len(prefix)) = prefix

\* The character class \p{L} of the letters that occur in the titles; \p{N}
\* is DIGITS and \s the blank.
Letters == {UPPER[i] : i \in DOMAIN UPPER} \cup {LOWER[i] : i \in DOMAIN LOWER}

IsLetter(ch) == ch \in Letters

\* `${title.toLowerCase()}_${year || 'no-year'}`
cacheKey(title, year) ==
  toLowerCase(title) \o <<"_">> \o (IF year = NoYear THEN NO_YEAR_SENTINEL ELSE year)

\* The queries the calls draw from: {title, year}.
Queries ==
  { [title |-> <<"U", "p">>, year |-> NoYear],
    [title |-> <<"u", "p">>, year |-> <<"0", "9">>] }

NoQuery == [title |-> << >>, year |-> NoYear]

\* What the backend may answer to a search fetch.  A response is described by
\* what the worker reads from it: response.ok, the length of the body, the
\* presence of a session-expiry phrase, of 'Fehler', of the result-count
\* marker 'lokale Datenbank (n)', of an availability keyword, and the
\* links of the page, in document order.
Up == <<"U", "p">>
Upside == <<"U", "p", "s", "i", "d", "e">>

\* A link of the page: its href, its text, the link patterns it matches, and
\* whether a DVD or Blu-ray marker stands in the window around its href.
Anchor(href, text, patterns, media) ==
  [href |-> href, text |-> text, patterns |-> patterns, media |-> media]

\* A link to the full record of a DVD.
Dvd(n, text) == Anchor(<<"/singleHit.do?id=", n>>, text, {"singleHit"}, TRUE)

Page(marker, anchors, keyword) ==
  [ok |-> TRUE, len |-> 20000, expiryPhrase |-> FALSE, fehler |-> FALSE,
   marker |-> marker, anchors |-> anchors, keyword |-> keyword]

Short(ok, len, expiryPhrase, fehler) ==
  [ok |-> ok, len |-> len, expiryPhrase |-> expiryPhrase, fehler |-> fehler,
   marker |-> FALSE, anchors |-> << >>, keyword |-> FALSE]

MatchPage == Page(TRUE, <<Dvd(1, Up)>>, TRUE)
EmptyPage == Page(FALSE, << >>, FALSE)

Responses ==
  { MatchPage,
    EmptyPage,
    Short(TRUE, 3000, TRUE, FALSE),
    Short(TRUE, 500, FALSE, TRUE),
    Short(FALSE, 500, FALSE, FALSE) }

\* fetch() either resolves with a response or rejects (transport error).
FetchOutcomes ==
  { [rejected |-> FALSE, response |-> r] : r \in Responses }
    \cup { [rejected |-> TRUE] }

\* Outcomes of the handshake fetch: 2xx, non-2xx, transport error.
HandshakeOutcomes == {"ok", "http_error", "rejected"}

HasError(res) == "error" \in DOMAIN res
IsSessionExpired(res) == HasError(res) /\ res.error = "Session expired"

\* ------------------------------------------------------------------ state

VARIABLES
  searchCache,         \* Map: cache key -> stored result
  sessionInitialized,  \* let sessionInitialized
  sessionInitPromise,  \* let sessionInitPromise: {} is null, {h} the promise of handshake h
  activeRequests,      \* let activeRequests
  requestQueue,        \* const requestQueue: the queued tryAcquire closures, by caller
  handshakes,          \* handshake fetches in flight: id -> callers awaiting its promise, in order
  expiryTimers,        \* deadlines of the armed session-expiry setTimeout callbacks, oldest first
  nextCleanup,         \* deadline of the next setInterval(cleanupCache) run
  now,                 \* Date.now()
  pc,                  \* per call: where searchFilm is suspended
  attempt,             \* per call: 1 in the first performSearch, 2 in the retry
  query,               \* per call: the {title, year} of the message
  result,              \* per call: what searchFilm returned (sendResponse)
  holders,             \* history: callers between waitForRequestSlot resolving and releaseRequestSlot
  fetches,             \* history: per call, search fetches issued
  outcomes,            \* history: per call, the results of its performSearch calls
  ensured,             \* history: per call, what its latest ensureSession resolved to (<< >>: none yet)
  rehandshakes,        \* history: per call, handshakes it awaited before its retry
  released,            \* history: per call, releaseRequestSlot calls of its performSearch
  acquired,            \* history: per call, slots acquired by its performSearch
  doneBefore,          \* history: per call, the calls for the same query that had resolved when it was issued
  storedAt,            \* history: per cache key, Date.now() when it was last stored
  served,              \* history: per call, what its search fetches settled with
  caller,              \* per call: the content script's checkAvailability awaiting Promise.race
  callerDeadline,      \* per call: when the caller's timeout timer is due
  delayTimers,         \* per call: deadline of the pending delay() timer of its performSearch (0: none)
  fetchedAt,           \* history: per call, Date.now() at each of its search fetches (where the delay timers are followed)
  page,                \* the content script of a tab: the fields of HFFAvailabilityChecker and its document
  input,               \* the arguments a function of the worker is applied to
  output               \* what the function returned

vars ==
  << searchCache, sessionInitialized, sessionInitPromise, activeRequests,
     requestQueue, handshakes, expiryTimers, nextCleanup, now, pc, attempt,
     query, result, holders, fetches, outcomes, ensured, rehandshakes,
     released, acquired, doneBefore, storedAt, served, caller,
     callerDeadline, delayTimers, fetchedAt, page, input, output >>

\* The whole state as one record, so that the functions of the program can be
\* written as state transformers and composed in the order the code runs them.
\* width is the constant MAX_CONCURRENT_REQUESTS of the worker that runs.
State ==
  [ searchCache |-> searchCache, sessionInitialized |-> sessionInitialized,
    sessionInitPromise |-> sessionInitPromise, activeRequests |-> activeRequests,
    requestQueue |-> requestQueue, handshakes |-> handshakes,
    expiryTimers |-> expiryTimers, nextCleanup |-> nextCleanup, now |-> now,
    pc |-> pc, attempt |-> attempt, query |-> query, result |-> result,
    holders |-> holders, fetches |-> fetches, outcomes |-> outcomes,
    ensured |-> ensured, rehandshakes |-> rehandshakes, released |-> released, acquired |-> acquired,
    doneBefore |-> doneBefore, storedAt |-> storedAt, served |-> served,
    caller |-> caller, callerDeadline |-> callerDeadline,
    delayTimers |-> delayTimers, fetchedAt |-> fetchedAt, page |-> page,
    input |-> input, output |-> output, width |-> MAX_CONCURRENT_REQUESTS ]

Commit(s) ==
  /\ searchCache' = s.searchCache
  /\ sessionInitialized' = s.sessionInitialized
  /\ sessionInitPromise' = s.sessionInitPromise
  /\ activeRequests' = s.activeRequests
  /\ requestQueue' = s.requestQueue
  /\ handshakes' = s.handshakes
  /\ expiryTimers' = s.expiryTimers
  /\ nextCleanup' = s.nextCleanup
  /\ now' = s.now
  /\ pc' = s.pc
  /\ attempt' = s.attempt
  /\ query' = s.query
  /\ result' = s.result
  /\ holders' = s.holders
  /\ fetches' = s.fetches
  /\ outcomes' = s.outcomes
  /\ ensured' = s.ensured
  /\ rehandshakes' = s.rehandshakes
  /\ released' = s.released
  /\ acquired' = s.acquired
  /\ doneBefore' = s.doneBefore
  /\ storedAt' = s.storedAt
  /\ served' = s.served
  /\ caller' = s.caller
  /\ callerDeadline' = s.callerDeadline
  /\ delayTimers' = s.delayTimers
  /\ fetchedAt' = s.fetchedAt
  /\ page' = s.page
  /\ input' = s.input
  /\ output' = s.output

NoResult == [pending |-> TRUE]

Constructed ==
  /\ searchCache = << >>
  /\ sessionInitialized = FALSE
  /\ sessionInitPromise = {}
  /\ activeRequests = 0
  /\ requestQueue = << >>
  /\ handshakes = << >>
  /\ expiryTimers = << >>
  /\ nextCleanup = CLEANUP_INTERVAL_MS
  /\ now = 0
  /\ pc = [c \in Calls |-> "idle"]
  /\ attempt = [c \in Calls |-> 1]
  /\ query = [c \in Calls |-> NoQuery]
  /\ result = [c \in Calls |-> NoResult]
  /\ holders = {}
  /\ fetches = [c \in Calls |-> 0]
  /\ outcomes = [c \in Calls |-> << >>]
  /\ ensured = [c \in Calls |-> << >>]
  /\ rehandshakes = [c \in Calls |-> 0]
  /\ released = [c \in Calls |-> 0]
  /\ acquired = [c \in Calls |-> 0]
  /\ doneBefore = [c \in Calls |-> {}]
  /\ storedAt = << >>
  /\ served = [c \in Calls |-> << >>]
  /\ caller = [c \in Calls |-> "none"]
  /\ callerDeadline = [c \in Calls |-> 0]
  /\ delayTimers = [c \in Calls |-> 0]
  /\ fetchedAt = [c \in Calls |-> << >>]

\* No function is applied on its own, and no tab runs the content script.
NoInput == << >>
NoOutput == << >>
NoPage == << >>

Init == Constructed /\ input = NoInput /\ output = NoOutput /\ page = NoPage

\* --------------------------------------------------------------- throttle

\* Faulty variant of tryAcquire: the slot is taken without comparing
\* activeRequests with the width.
tryAcquireUnbounded(s, c) ==
  [s EXCEPT !.activeRequests = @ + 1,
            !.holders = @ \cup {c},
            !.acquired[c] = @ + 1,
            !.delayTimers[c] = s.now + REQUEST_DELAY_MS,
            !.pc[c] = "delay"]

\* tryAcquire, the closure of waitForRequestSlot (lines 731-738): take a slot and
\* resolve the caller's promise, or queue the closure itself.  The resolved
\* caller, performSearch, arms delay(100) in the same task (line 769).
tryAcquire(s, c) ==
  IF s.activeRequests < s.width
    THEN [s EXCEPT !.activeRequests = @ + 1,
                   !.holders = @ \cup {c},
                   !.acquired[c] = @ + 1,
                   !.delayTimers[c] = s.now + REQUEST_DELAY_MS,
                   !.pc[c] = "delay"]
    ELSE [s EXCEPT !.requestQueue = Append(@, c),
                   !.pc[c] = "queued"]

waitForRequestSlot(s, c) == tryAcquire(s, c)

\* Faulty variant of releaseRequestSlot: the counter is decremented and no
\* queued closure is run.
releaseRequestSlotNoWake(s) == [s EXCEPT !.activeRequests = @ - 1]

\* Faulty variant of releaseRequestSlot: pop() instead of shift(), the newest
\* queued closure is run.
releaseRequestSlotNewest(s) ==
  LET s1 == [s EXCEPT !.activeRequests = @ - 1]
      n == Len(s1.requestQueue)
  IN IF n > 0
       THEN tryAcquire([s1 EXCEPT !.requestQueue = SubSeq(@, 1, n - 1)],
                       s1.requestQueue[n])
       ELSE s1

\* releaseRequestSlot (lines 753-759): the woken closure runs synchronously.
releaseRequestSlot(s) ==
  LET s1 == [s EXCEPT !.activeRequests = @ - 1] IN
  IF Len(s1.requestQueue) > 0
    THEN tryAcquire([s1 EXCEPT !.requestQueue = Tail(@)], Head(s1.requestQueue))
    ELSE s1

\* performSearch up to its first suspension (lines 764-769): the caller waits
\* for a slot; once it has one, delay(100) is armed.
performSearch(s, c) == waitForRequestSlot(s, c)

\* Faulty variant of performSearch: no finally block, the slot is kept.
performSearchFinallyMissing(s, c) == [s EXCEPT !.holders = @ \ {c}]

\* The finally block of performSearch (lines 773-775), run by caller c.
performSearchFinally(s, c) ==
  releaseRequestSlot([s EXCEPT !.holders = @ \ {c}, !.released[c] = @ + 1])

\* ---------------------------------------------------------------- session

\* An id for a new handshake fetch: the least one not in flight.
FreshHandshake(s) ==
  CHOOSE h \in HandshakeIds :
    /\ h \notin DOMAIN s.handshakes
    /\ \A g \in HandshakeIds : g < h => g \in DOMAIN s.handshakes

\* What searchFilm does when `await ensureSession()` resolves (lines 702-709 and
\* 715-716): the resolved value is not looked at, performSearch is called.
afterEnsure(s, c, established) ==
  performSearch([s EXCEPT !.ensured[c] = <<established>>], c)

\* The caller awaits the promise of handshake h.
awaitHandshake(s, c, h) ==
  [s EXCEPT !.handshakes[h] = Append(@, c),
            !.pc[c] = "awaitSession",
            !.rehandshakes[c] = IF s.attempt[c] = 2 THEN @ + 1 ELSE @]

\* Faulty variant of ensureSession: the promise of a handshake in flight is not
\* looked at, every caller without a live session starts a handshake.
ensureSessionNoJoin(s, c) ==
  IF s.sessionInitialized
    THEN afterEnsure(s, c, TRUE)
    ELSE LET h == FreshHandshake(s) IN
         awaitHandshake([s EXCEPT !.handshakes = (h :> << >>) @@ @,
                                  !.sessionInitPromise = {h}], c, h)

\* ensureSession called by c (lines 639-682), up to the await of its caller.
ensureSession(s, c) ==
  IF s.sessionInitPromise # {}
    THEN \* a handshake is in flight: its promise is returned
         awaitHandshake(s, c, CHOOSE g \in s.sessionInitPromise : TRUE)
    ELSE IF s.sessionInitialized
      THEN afterEnsure(s, c, TRUE)
      ELSE \* start the handshake fetch and keep its promise
           LET h == FreshHandshake(s) IN
           awaitHandshake([s EXCEPT !.handshakes = (h :> << >>) @@ @,
                                    !.sessionInitPromise = {h}], c, h)

\* The callers awaiting a settled handshake promise resume in the order in
\* which they began to await it.
RECURSIVE resumeAll(_, _, _)
resumeAll(s, waiters, established) ==
  IF waiters = << >> THEN s
  ELSE resumeAll(afterEnsure(s, Head(waiters), established), Tail(waiters), established)

\* Faulty variant of handshakeSettled: no expiry timer is armed.
handshakeSettledNoTimer(s, h, outcome) ==
  LET s1 == IF outcome = "ok" THEN [s EXCEPT !.sessionInitialized = TRUE] ELSE s
      s2 == [s1 EXCEPT !.sessionInitPromise = {},
                       !.handshakes = [g \in DOMAIN @ \ {h} |-> @[g]]]
  IN resumeAll(s2, s.handshakes[h], outcome = "ok")

\* Faulty variant of handshakeSettled: without the finally block the promise
\* of a failed handshake stays in sessionInitPromise.
handshakeSettledKeepsPromise(s, h, outcome) ==
  LET s1 == IF outcome = "ok"
              THEN [s EXCEPT !.sessionInitialized = TRUE,
                             !.sessionInitPromise = {},
                             !.expiryTimers = Append(@, s.now + SESSION_LIFETIME_MS)]
              ELSE s
      s2 == [s1 EXCEPT !.handshakes = [g \in DOMAIN @ \ {h} |-> @[g]]]
  IN resumeAll(s2, s.handshakes[h], outcome = "ok")

\* The body of the handshake promise after its fetch settles (lines 658-678).
handshakeSettled(s, h, outcome) ==
  LET s1 == IF outcome = "ok"
              THEN [s EXCEPT !.sessionInitialized = TRUE,
                             !.expiryTimers = Append(@, s.now + SESSION_LIFETIME_MS)]
              ELSE s
      s2 == [s1 EXCEPT !.sessionInitPromise = {},
                       !.handshakes = [g \in DOMAIN @ \ {h} |-> @[g]]]
  IN resumeAll(s2, s.handshakes[h], outcome = "ok")

\* The session-expiry callback (lines 663-666).
sessionExpired(s) ==
  [s EXCEPT !.sessionInitialized = FALSE, !.expiryTimers = Tail(@)]

\* --------------------------------------------------------- query executor

\* -------------------------------------------------------------- extractor

\* The link patterns of parseSearchResults, in the order they are applied
\* (lines 861-871): title="zur Vollanzeige", href with singleHit.do, href with
\* showHit, a link in a resultTitle cell.
LinkPatterns == <<"zurVollanzeige", "singleHit", "showHit", "resultTitle">>

\* matches.map(m => ({href: m[1], text: m[2].trim()})) for one pattern, in
\* document order (lines 873-881).
patternMatches(html, pattern) ==
  LET found == SelectSeq(html.anchors, LAMBDA a : pattern \in a.patterns)
  IN [i \in DOMAIN found |-> [href |-> found[i].href, text |-> trim(found[i].text)]]

\* allMatches = allMatches.concat(...) over the patterns (lines 873-881).
RECURSIVE pooledMatches(_, _)
pooledMatches(html, p) ==
  IF p > Len(LinkPatterns) THEN << >>
  ELSE patternMatches(html, LinkPatterns[p]) \o pooledMatches(html, p + 1)

\* Faulty variant of uniqueMatches: texts are compared as they are written.
RECURSIVE uniqueMatchesCaseSensitive(_, _, _)
uniqueMatchesCaseSensitive(allMatches, i, seen) ==
  IF i > Len(allMatches) THEN << >>
  ELSE LET key == allMatches[i].text IN
       IF key \in seen THEN uniqueMatchesCaseSensitive(allMatches, i + 1, seen)
       ELSE <<allMatches[i]>>
              \o uniqueMatchesCaseSensitive(allMatches, i + 1, seen \cup {key})

\* The filter by the Set seenTexts (lines 883-889): the first match of every
\* lowercased text is kept.
RECURSIVE uniqueMatches(_, _, _)
uniqueMatches(allMatches, i, seen) ==
  IF i > Len(allMatches) THEN << >>
  ELSE LET key == toLowerCase(allMatches[i].text) IN
       IF key \in seen THEN uniqueMatches(allMatches, i + 1, seen)
       ELSE <<allMatches[i]>> \o uniqueMatches(allMatches, i + 1, seen \cup {key})

\* html.indexOf(match.href) finds the first place the href is written at; the
\* anchor there tells whether a DVD or Blu-ray marker stands in the window
\* from 1500 characters before it to 500 after it (lines 899-913).
isDvdOrBluray(html, href) ==
  LET hrefIndex == CHOOSE i \in DOMAIN html.anchors :
                     /\ html.anchors[i].href = href
                     /\ \A j \in 1..(i - 1) : html.anchors[j].href # href
  IN html.anchors[hrefIndex].media

\* const dvdFilteredMatches = allMatches.filter(...) (lines 896-917)
dvdFilteredMatches(html, allMatches) ==
  SelectSeq(allMatches, LAMBDA match : isDvdOrBluray(html, match.href))

\* Faulty variant of mediaFilter: when the filter leaves nothing, the
\* unfiltered matches are used.
mediaFilterFallback(html, allMatches) ==
  LET filtered == dvdFilteredMatches(html, allMatches) IN
  IF filtered = << >> THEN allMatches ELSE filtered

\* Lines 919-929: when the filter removed every match, allMatches is emptied;
\* otherwise it becomes the filtered matches.
mediaFilter(html, allMatches) ==
  LET filtered == dvdFilteredMatches(html, allMatches) IN
  IF Len(filtered) = 0 /\ Len(allMatches) > 0 THEN << >> ELSE filtered

\* The matches after pooling and deduplication (lines 873-889).
dedupedMatches(html) == uniqueMatches(pooledMatches(html, 1), 1, {})

\* The matches the best one is chosen from (lines 861-929).
extract(html) == mediaFilter(html, dedupedMatches(html))

\* ---------------------------------------------------------------- matcher

\* A score is a JavaScript number.  The scorer divides word counts, so a
\* number is a fraction in lowest terms; 0/0 is NaN, with which every
\* comparison is false and every sum, product and minimum is NaN again.
RECURSIVE gcd(_, _)
gcd(a, b) == IF b = 0 THEN a ELSE gcd(b, a % b)

NaN == [num |-> 0, den |-> 0]
IsNaN(x) == x.den = 0

Quot(a, b) ==
  IF b = 0 THEN NaN
  ELSE LET g == gcd(a, b) IN [num |-> a \div g, den |-> b \div g]

Num(n) == [num |-> n, den |-> 1]

Geq(x, y) == ~IsNaN(x) /\ ~IsNaN(y) /\ x.num * y.den >= y.num * x.den
Gt(x, y) == ~IsNaN(x) /\ ~IsNaN(y) /\ x.num * y.den > y.num * x.den

Plus(x, y) ==
  IF IsNaN(x) \/ IsNaN(y) THEN NaN
  ELSE Quot(x.num * y.den + y.num * x.den, x.den * y.den)

Times(x, y) ==
  IF IsNaN(x) \/ IsNaN(y) THEN NaN
  ELSE Quot(x.num * y.num, x.den * y.den)

\* Math.min
Min(x, y) ==
  IF IsNaN(x) \/ IsNaN(y) THEN NaN ELSE IF Geq(x, y) THEN y ELSE x

\* s.replace(/\s+/g, ' ')
RECURSIVE collapseSpaces(_)
collapseSpaces(str) ==
  IF Len(str) < 2 THEN str
  ELSE IF str[1] = " " /\ str[2] = " " THEN collapseSpaces(Tail(str))
  ELSE <<str[1]>> \o collapseSpaces(Tail(str))

\* const normalize = (s) => s.replace(/[^\p{L}\p{N}\s]/gu, '')
\*   .replace(/\s+/g, ' ').trim().toLowerCase() (line 941)
normalize(str) ==
  LET kept == SelectSeq(str, LAMBDA ch : IsLetter(ch) \/ ch \in DIGITS \/ ch = " ")
  IN toLowerCase(trim(collapseSpaces(kept)))

\* s.split(' ')
RECURSIVE split(_)
split(str) ==
  IF \A i \in DOMAIN str : str[i] # " " THEN <<str>>
  ELSE LET i == CHOOSE k \in DOMAIN str :
                  str[k] = " " /\ \A j \in 1..(k - 1) : str[j] # " "
       IN <<SubSeq(str, 1, i - 1)>> \o split(SubSeq(str, i + 1, Len(str)))

\* Faulty variant of getWords: words of two characters are kept.
getWordsFromTwo(str) == SelectSeq(split(str), LAMBDA w : Len(w) > 1)

\* const getWords = (s) => s.split(' ').filter(w => w.length > 2)
getWords(str) == SelectSeq(split(str), LAMBDA w : Len(w) > 2)

\* Array.prototype.includes
includes(words, w) == \E i \in DOMAIN words : words[i] = w

\* searchWords.filter(w => resultWords.includes(w))
commonWords(searchWords, resultWords) ==
  SelectSeq(searchWords, LAMBDA w : includes(resultWords, w))

\* n2 === n1 || n2.startsWith(n1 + ' ') || n2.match(/^<n1>\s*[\(\[\d]/)
resultStartsWithSearch(n1, n2) ==
  \/ n2 = n1
  \/ startsWith(n2, n1 \o <<" ">>)
  \/ /\ startsWith(n2, n1)
     /\ LET rest == trimStart(SubSeq(n2, Len(n1) + 1, Len(n2)))
        IN rest # << >> /\ (rest[1] \in {"(", "["} \/ rest[1] \in DIGITS)

\* The branch for a search title of one word (lines 952-984).
singleWordScore(n1, n2, searchWords, resultWords) ==
  LET searchWord == searchWords[1] IN
  IF Len(resultWords) = 1 /\ resultWords[1] = searchWord THEN Num(90)
  ELSE IF resultStartsWithSearch(n1, n2)
    THEN (IF Len(resultWords) <= 2 THEN Num(80) ELSE Num(25))
  ELSE IF includes(resultWords, searchWord) THEN Num(20)
  ELSE Num(10)

\* Faulty variant of twoWordScore: the length of the result is not looked at.
twoWordScoreAnyLength(searchWords, resultWords) ==
  IF /\ Len(resultWords) >= 2
     /\ resultWords[1] = searchWords[1]
     /\ resultWords[2] = searchWords[2]
    THEN Num(85)
  ELSE IF Len(commonWords(searchWords, resultWords)) = 2 THEN Num(75)
  ELSE Num(15)

\* The branch for a search title of two words (lines 987-1006).
twoWordScore(searchWords, resultWords) ==
  IF /\ Len(resultWords) >= 2
     /\ resultWords[1] = searchWords[1]
     /\ resultWords[2] = searchWords[2]
    THEN (IF Len(resultWords) <= 3 THEN Num(85) ELSE Num(75))
  ELSE IF Len(commonWords(searchWords, resultWords)) = 2
    THEN (IF Len(resultWords) <= 3 THEN Num(75) ELSE Num(50))
  ELSE Num(15)

\* The loop of lines 1014-1021.
RECURSIVE matchingPrefix(_, _, _)
matchingPrefix(searchWords, resultWords, i) ==
  IF i <= Len(searchWords) /\ i <= Len(resultWords)
       /\ searchWords[i] = resultWords[i]
    THEN 1 + matchingPrefix(searchWords, resultWords, i + 1)
    ELSE 0

\* Faulty variant of overlapScore: the third branch adds the whole bonus.
overlapScoreWholeBonus(searchWords, resultWords) ==
  LET common == Len(commonWords(searchWords, resultWords))
      overlapRatio == Quot(common, IF Len(searchWords) >= Len(resultWords)
                             THEN Len(searchWords) ELSE Len(resultWords))
      coverageRatio == Quot(common, Len(searchWords))
      prefixBonus ==
        Times(Quot(matchingPrefix(searchWords, resultWords, 1),
                   Len(searchWords)), Num(20))
  IN IF Geq(coverageRatio, Quot(8, 10)) /\ Geq(overlapRatio, Quot(5, 10))
       THEN Min(Num(95), Plus(Num(85), prefixBonus))
     ELSE IF Geq(coverageRatio, Quot(6, 10)) /\ Geq(overlapRatio, Quot(4, 10))
       THEN Min(Num(85), Plus(Num(70), prefixBonus))
     ELSE IF Geq(coverageRatio, Quot(5, 10))
       THEN Plus(Num(50), prefixBonus)
     ELSE Times(overlapRatio, Num(40))

\* The word-overlap branch (lines 1008-1031), which every search title that
\* has neither one nor two words reaches.
overlapScore(searchWords, resultWords) ==
  LET common == Len(commonWords(searchWords, resultWords))
      overlapRatio == Quot(common, IF Len(searchWords) >= Len(resultWords)
                             THEN Len(searchWords) ELSE Len(resultWords))
      coverageRatio == Quot(common, Len(searchWords))
      prefixBonus ==
        Times(Quot(matchingPrefix(searchWords, resultWords, 1),
                   Len(searchWords)), Num(20))
  IN IF Geq(coverageRatio, Quot(8, 10)) /\ Geq(overlapRatio, Quot(5, 10))
       THEN Min(Num(95), Plus(Num(85), prefixBonus))
     ELSE IF Geq(coverageRatio, Quot(6, 10)) /\ Geq(overlapRatio, Quot(4, 10))
       THEN Min(Num(85), Plus(Num(70), prefixBonus))
     ELSE IF Geq(coverageRatio, Quot(5, 10))
       THEN Plus(Num(50), Times(prefixBonus, Quot(1, 2)))
     ELSE Times(overlapRatio, Num(40))

\* Faulty variant of calculateTitleSimilarity: the normalized titles are not
\* compared.
calculateTitleSimilarityNoNormalized(title1, title2) ==
  LET t1 == trim(toLowerCase(title1))
      t2 == trim(toLowerCase(title2))
      searchWords == getWords(normalize(t1))
      resultWords == getWords(normalize(t2))
  IN IF t1 = t2 THEN Num(100)
     ELSE IF Len(searchWords) = 1
       THEN singleWordScore(normalize(t1), normalize(t2), searchWords, resultWords)
     ELSE IF Len(searchWords) = 2
       THEN twoWordScore(searchWords, resultWords)
     ELSE overlapScore(searchWords, resultWords)

\* const calculateTitleSimilarity = (title1, title2) => ... (lines 932-1032)
calculateTitleSimilarity(title1, title2) ==
  LET t1 == trim(toLowerCase(title1))
      t2 == trim(toLowerCase(title2))
      n1 == normalize(t1)
      n2 == normalize(t2)
      searchWords == getWords(n1)
      resultWords == getWords(n2)
  IN IF t1 = t2 THEN Num(100)
     ELSE IF n1 = n2 THEN Num(95)
     ELSE IF Len(searchWords) = 1
       THEN singleWordScore(n1, n2, searchWords, resultWords)
     ELSE IF Len(searchWords) = 2
       THEN twoWordScore(searchWords, resultWords)
     ELSE overlapScore(searchWords, resultWords)

\* Faulty variant of selectBest: a match that only equals the best score so
\* far replaces the best match.
RECURSIVE selectBestLast(_, _, _)
selectBestLast(allMatches, i, bestMatch) ==
  IF i > Len(allMatches) THEN bestMatch
  ELSE LET bestScore == IF bestMatch = << >> THEN Num(0) ELSE bestMatch[1].score
           match == allMatches[i]
       IN selectBestLast(allMatches, i + 1,
                         IF Geq(match.score, bestScore)
                              /\ Geq(match.score, Num(MATCH_THRESHOLD))
                           THEN <<match>> ELSE bestMatch)

\* The best match of parseSearchResults (lines 1034-1046): the first candidate
\* with the highest score among those that reach MATCH_THRESHOLD; << >> when
\* there is none.
RECURSIVE selectBest(_, _, _)
selectBest(allMatches, i, bestMatch) ==
  IF i > Len(allMatches) THEN bestMatch
  ELSE LET bestScore == IF bestMatch = << >> THEN Num(0) ELSE bestMatch[1].score
           match == allMatches[i]
       IN selectBest(allMatches, i + 1,
                     IF Gt(match.score, bestScore)
                          /\ Geq(match.score, Num(MATCH_THRESHOLD))
                       THEN <<match>> ELSE bestMatch)

\* const score = calculateTitleSimilarity(searchTitle, match.text), for every
\* match of the loop (line 1040).
scoreMatches(allMatches, searchTitle) ==
  [i \in DOMAIN allMatches |->
     [text |-> allMatches[i].text, href |-> allMatches[i].href,
      score |-> calculateTitleSimilarity(searchTitle, allMatches[i].text)]]

\* encodeURIComponent: the letters, the digits and - _ . ! ~ * ' ( ) are
\* kept, every other character becomes the %XX of its UTF-8 bytes.
encodeChar(ch) ==
  CASE ch = "é" -> "%C3%A9"
    [] ch = "É" -> "%C3%89"
    [] IsLetter(ch) -> ch
    [] ch \in DIGITS -> ch
    [] ch \in {"-", "_", ".", "!", "~", "*", "'", "(", ")"} -> ch
    [] ch = " " -> "%20"
    [] ch = "," -> "%2C"
    [] ch = ":" -> "%3A"
    [] ch = ";" -> "%3B"
    [] ch = "[" -> "%5B"
    [] ch = "]" -> "%5D"
    [] ch = "?" -> "%3F"
    [] ch = "&" -> "%26"

encodeURIComponent(str) == [i \in DOMAIN str |-> encodeChar(str[i])]

\* Faulty variant of catalogLink: the title is put into the link as it is.
catalogLinkRaw(text) == <<"start.do?Branch=00&Query=-1=">> \o text

\* The catalog deep link built from the matched title (line 1060).  A URL is
\* the sequence of the pieces it is concatenated from.
SEARCH_LINK_PREFIX ==
  "https://webopac.hff-muc.de/webOPACClient.hffsis/start.do?Branch=00&Query=-1=%22"

catalogLink(text) ==
  <<SEARCH_LINK_PREFIX>> \o encodeURIComponent(text) \o <<"%22">>

\* Faulty variant of parseSearchResults: the result of a best match carries
\* no link.
parseSearchResultsNoLink(html, searchTitle) ==
  LET allMatches == extract(html)
      bestMatch == selectBest(scoreMatches(allMatches, searchTitle), 1, << >>) IN
  IF bestMatch # << >>
    THEN [available |-> html.keyword, title |-> bestMatch[1].text,
          matchScore |-> bestMatch[1].score]
  ELSE IF Len(allMatches) > 0
    THEN [available |-> FALSE,
          note |-> "Found results but titles did not match closely enough"]
  ELSE [available |-> FALSE]

\* Faulty variant of parseSearchResults: the note is attached when the
\* result-count marker is present, whatever candidates are left.
parseSearchResultsByMarker(html, searchTitle) ==
  LET allMatches == extract(html)
      bestMatch == selectBest(scoreMatches(allMatches, searchTitle), 1, << >>) IN
  IF bestMatch # << >>
    THEN [available |-> html.keyword, link |-> catalogLink(bestMatch[1].text),
          title |-> bestMatch[1].text, matchScore |-> bestMatch[1].score]
  ELSE IF html.marker
    THEN [available |-> FALSE,
          note |-> "Found results but titles did not match closely enough"]
  ELSE [available |-> FALSE]

\* Faulty variant of parseSearchResults: without candidates the result still
\* carries the note.
parseSearchResultsAlwaysNote(html, searchTitle) ==
  LET allMatches == extract(html)
      bestMatch == selectBest(scoreMatches(allMatches, searchTitle), 1, << >>) IN
  IF bestMatch # << >>
    THEN [available |-> html.keyword, link |-> catalogLink(bestMatch[1].text),
          title |-> bestMatch[1].text, matchScore |-> bestMatch[1].score]
  ELSE [available |-> FALSE,
        note |-> "Found results but titles did not match closely enough"]

\* parseSearchResults (lines 846-1085), by what the extraction and the scoring
\* found in the body: a best match, candidates of which none matched, nothing.
\* Its catch (lines 1081-1084) is not reached: with a string title and a body
\* decoded by response.text() no statement of the try block throws (the
\* pattern of line 964 is built from letters, digits and blanks only, and
\* encodeURIComponent of line 1060 gets well-formed text).
parseSearchResults(html, searchTitle) ==
  LET allMatches == extract(html)
      bestMatch == selectBest(scoreMatches(allMatches, searchTitle), 1, << >>) IN
  IF bestMatch # << >>
    THEN [available |-> html.keyword, link |-> catalogLink(bestMatch[1].text),
          title |-> bestMatch[1].text, matchScore |-> bestMatch[1].score]
  ELSE IF Len(allMatches) > 0
    THEN [available |-> FALSE,
          note |-> "Found results but titles did not match closely enough"]
  ELSE [available |-> FALSE]

\* Faulty variant of the cache store: nothing is stored.
cacheStoreNothing(s, key, res) == s

\* searchCache.set(cacheKey, result) (lines 828-829).
cacheStore(s, key, res) ==
  [s EXCEPT !.searchCache = (key :> res) @@ @,
            !.storedAt = (key :> s.now) @@ @]

\* Faulty variant of performSearchInternal: the result is stored before the
\* triage, so error results are cached too.
performSearchInternalStoreFirst(s, c, settled) ==
  LET res ==
        IF settled.rejected
          THEN [available |-> FALSE, error |-> "Failed to fetch"]
        ELSE IF ~settled.response.ok
          THEN [available |-> FALSE, error |-> "Search request failed with status"]
        ELSE IF settled.response.len < 6000 /\ settled.response.expiryPhrase
          THEN [available |-> FALSE, error |-> "Session expired"]
        ELSE IF settled.response.fehler /\ settled.response.len < 1000
          THEN [available |-> FALSE, error |-> "HFF returned error page"]
        ELSE parseSearchResults(settled.response, s.query[c].title)
  IN [state |-> cacheStore(s, cacheKey(s.query[c].title, s.query[c].year), res),
      result |-> res]

\* performSearchInternal once its fetch has settled (lines 789-837): the state
\* it leaves and the result it returns.
performSearchInternal(s, c, settled) ==
  IF settled.rejected
    THEN [state |-> s, result |-> [available |-> FALSE, error |-> "Failed to fetch"]]
  ELSE LET html == settled.response IN
    IF ~html.ok
      THEN [state |-> s,
            result |-> [available |-> FALSE, error |-> "Search request failed with status"]]
    ELSE IF html.len < 6000 /\ html.expiryPhrase
      THEN [state |-> s, result |-> [available |-> FALSE, error |-> "Session expired"]]
    ELSE IF html.fehler /\ html.len < 1000
      THEN [state |-> s, result |-> [available |-> FALSE, error |-> "HFF returned error page"]]
    ELSE LET res == parseSearchResults(html, s.query[c].title) IN
      [state |-> cacheStore(s, cacheKey(s.query[c].title, s.query[c].year), res),
       result |-> res]

\* searchFilm returns (lines 696, 719): the message handler sends the response.
resolveCall(s, c, res) == [s EXCEPT !.pc[c] = "done", !.result[c] = res]

\* Faulty variant of the retry branch: every session-expired result is
\* retried, not only that of the first performSearch.
searchFilmRetryAlways(s, c, res) ==
  LET s1 == [s EXCEPT !.outcomes[c] = Append(@, res)] IN
  IF IsSessionExpired(res)
    THEN ensureSession([s1 EXCEPT !.sessionInitialized = FALSE, !.attempt[c] = 2], c)
    ELSE resolveCall(s1, c, res)

\* Faulty variant of the retry branch: the first performSearch is repeated
\* after any error result.
searchFilmRetryAnyError(s, c, res) ==
  LET s1 == [s EXCEPT !.outcomes[c] = Append(@, res)] IN
  IF s.attempt[c] = 1 /\ HasError(res)
    THEN ensureSession([s1 EXCEPT !.sessionInitialized = FALSE, !.attempt[c] = 2], c)
    ELSE resolveCall(s1, c, res)

\* Faulty variant of the retry branch: the session is not invalidated before
\* ensureSession is called again.
searchFilmNoInvalidate(s, c, res) ==
  LET s1 == [s EXCEPT !.outcomes[c] = Append(@, res)] IN
  IF s.attempt[c] = 1 /\ IsSessionExpired(res)
    THEN ensureSession([s1 EXCEPT !.attempt[c] = 2], c)
    ELSE resolveCall(s1, c, res)

\* searchFilm after a performSearch has returned (lines 709-719).
searchFilmAfterSearch(s, c, res) ==
  LET s1 == [s EXCEPT !.outcomes[c] = Append(@, res)] IN
  IF s.attempt[c] = 1 /\ IsSessionExpired(res)
    THEN ensureSession([s1 EXCEPT !.sessionInitialized = FALSE, !.attempt[c] = 2], c)
    ELSE resolveCall(s1, c, res)

\* A message may lack the title: title.toLowerCase() then throws.
HasTitle(q) == "title" \in DOMAIN q

\* Faulty variant of searchFilm: without the try/catch the exception of line
\* 693 leaves the promise rejected.
searchFilmNoCatch(s, c, q) ==
  LET s1 == [s EXCEPT !.query[c] = q] IN
  IF ~HasTitle(q)
    THEN [s1 EXCEPT !.pc[c] = "done", !.result[c] = [rejected |-> TRUE]]
  ELSE IF cacheKey(q.title, q.year) \in DOMAIN s.searchCache
    THEN resolveCall(s1, c, s.searchCache[cacheKey(q.title, q.year)])
    ELSE ensureSession(s1, c)

\* Faulty variant of searchFilm: the cache is looked at only once the session
\* is ensured, so a hit goes through ensureSession first.
searchFilmNoLookup(s, c, q) ==
  LET s1 == [s EXCEPT !.query[c] = q] IN
  IF ~HasTitle(q)
    THEN resolveCall(s1, c, [available |-> FALSE,
                             error |-> "Cannot read properties of undefined"])
    ELSE ensureSession(s1, c)

\* searchFilm from the message to its first suspension (lines 690-702), or to
\* its catch (lines 720-723) when line 693 throws.
searchFilm(s, c, q) ==
  LET s1 == [s EXCEPT !.query[c] = q] IN
  IF ~HasTitle(q)
    THEN resolveCall(s1, c, [available |-> FALSE,
                             error |-> "Cannot read properties of undefined"])
  ELSE IF cacheKey(q.title, q.year) \in DOMAIN s.searchCache
    THEN resolveCall(s1, c, s.searchCache[cacheKey(q.title, q.year)])
    ELSE ensureSession(s1, c)

\* cleanupCache (lines 1090-1097).
HasTimestamp(value) == "timestamp" \in DOMAIN value

cleanupCache(s) ==
  LET expired(k) == /\ HasTimestamp(s.searchCache[k])
                    /\ s.now - s.searchCache[k].timestamp > CACHE_MAX_AGE_MS
      kept == {k \in DOMAIN s.searchCache : ~expired(k)}
  IN [s EXCEPT !.searchCache = [k \in kept |-> s.searchCache[k]]]

\* --------------------------------------------------- DOM parser (utils.js)

\* String.prototype.includes
includesText(str, part) ==
  \E i \in 0..(Len(str) - Len(part)) : SubSeq(str, i + 1, i + Len(part)) = part

\* Faulty variant of utils_parseSearchResults: the text of the link has to be
\* the title searched for.
utils_parseSearchResultsEqual(html, searchTitle) ==
  LET titleLinks == SelectSeq(html.anchors, LAMBDA a : a.titleAttr)
      found == SelectSeq(titleLinks, LAMBDA link :
                 toLowerCase(trim(link.text)) = toLowerCase(searchTitle))
  IN IF found # << >>
       THEN [available |-> found[1].parentKeyword,
             link |-> <<"https://webopac.hff-muc.de">> \o found[1].href,
             title |-> trim(found[1].text)]
     ELSE IF html.marker /\ html.keyword
       THEN [available |-> FALSE, note |-> "Found similar results but no exact match"]
     ELSE [available |-> FALSE]

\* parseSearchResults of utils.js (lines 93-146; the same loop is in part_001,
\* lines 15-63): the first a[title="zur Vollanzeige"] whose text contains the
\* title searched for is the result; it is available when the text of its
\* parent element has an availability keyword, and its link is its href
\* resolved against the origin of the catalog.
utils_parseSearchResults(html, searchTitle) ==
  LET searchTitleLower == toLowerCase(searchTitle)
      titleLinks == SelectSeq(html.anchors, LAMBDA a : a.titleAttr)
      found == SelectSeq(titleLinks, LAMBDA link :
                 includesText(toLowerCase(trim(link.text)), searchTitleLower))
  IN IF found # << >>
       THEN [available |-> found[1].parentKeyword,
             link |-> <<"https://webopac.hff-muc.de">> \o found[1].href,
             title |-> trim(found[1].text)]
     ELSE IF html.marker /\ html.keyword
       THEN [available |-> FALSE, note |-> "Found similar results but no exact match"]
     ELSE [available |-> FALSE]

\* ---------------------------------------------------------------- actions

\* A CHECK_AVAILABILITY message arrives (lines 1100-1111).  Calls are numbered
\* in the order of their arrival.
StartCall(c, q) ==
  /\ pc[c] = "idle"
  /\ \A d \in Calls : d < c => pc[d] # "idle"
  /\ Commit(searchFilm(State, c, q))

\* The handshake fetch settles.
HandshakeDone(h, outcome) ==
  /\ h \in DOMAIN handshakes
  /\ Commit(handshakeSettled(State, h, outcome))

\* delay(100) elapses: performSearchInternal issues the search fetch
\* (lines 769-790).
DelayElapsed(c) ==
  /\ pc[c] = "delay"
  /\ Commit([State EXCEPT !.pc[c] = "fetching", !.fetches[c] = @ + 1,
                          !.delayTimers[c] = 0])

\* The search fetch of c settles: triage, parse, store, release, retry or return.
FetchDone(c, settled) ==
  /\ pc[c] = "fetching"
  /\ LET r == performSearchInternal([State EXCEPT !.served[c] = Append(@, settled)],
                                    c, settled) IN
     Commit(searchFilmAfterSearch(performSearchFinally(r.state, c), c, r.result))

\* The session-expiry timer fires.  Time is not measured here: an armed timer
\* may fire at any later moment, the timers in the order they were armed.
SessionTimeout ==
  /\ expiryTimers # << >>
  /\ Commit(sessionExpired(State))

InFlight == {c \in Calls : pc[c] \notin {"idle", "done"}}

\* ---------------------------------------------------------- specifications

\* The queries and the fetch outcomes of Spec: one key; a parsed page, a
\* session-expired page, a transport error.
CoreQueries == {[title |-> <<"U", "p">>, year |-> NoYear]}

CoreOutcomes ==
  {f \in FetchOutcomes :
     \/ f.rejected
     \/ f.response = MatchPage
     \/ f.response.expiryPhrase}

\* Spec: the throttle and the session under MaxCalls concurrent calls, over a
\* stretch of time shorter than the session lifetime (no expiry timer fires).
Next ==
  \/ \E c \in Calls, q \in CoreQueries : StartCall(c, q)
  \/ \E h \in HandshakeIds, o \in HandshakeOutcomes : HandshakeDone(h, o)
  \/ \E c \in Calls : DelayElapsed(c)
  \/ \E c \in Calls, f \in CoreOutcomes : FetchDone(c, f)

Spec == Init /\ [][Next]_vars

\* SpecExec: the query executor with every kind of response and two cache
\* keys; ExecCalls calls, at most MaxOverlap of them in flight at a time; the
\* session-expiry timers fire at arbitrary moments.
StartCallExec(c, q) ==
  /\ pc[c] = "idle"
  /\ c <= ExecCalls
  /\ \A d \in Calls : d < c => pc[d] # "idle"
  /\ Cardinality(InFlight) < MaxOverlap
  /\ Commit([searchFilm(State, c, q) EXCEPT
              !.doneBefore[c] = {d \in Calls : pc[d] = "done" /\ query[d] = q}])

SpecExec ==
  Init /\ [][\/ \E c \in Calls, q \in Queries : StartCallExec(c, q)
             \/ \E h \in HandshakeIds, o \in HandshakeOutcomes : HandshakeDone(h, o)
             \/ \E c \in Calls : DelayElapsed(c)
             \/ \E c \in Calls, f \in FetchOutcomes : FetchDone(c, f)
             \/ SessionTimeout]_vars

\* SpecLive: the throttle under MaxCalls concurrent calls whose fetches fail or
\* come back session-expired (nothing is cached, every call goes through the
\* queue, an expired call goes through it twice), with the fairness of the
\* event loop and of the network: a timer that is due fires and a request that
\* was issued settles, so that while a timer or a request is pending one of
\* them eventually completes.
LiveOutcomes == {f \in FetchOutcomes : f.rejected \/ f.response.expiryPhrase}

Progress ==
  \/ \E h \in HandshakeIds : HandshakeDone(h, "ok")
  \/ \E c \in Calls : DelayElapsed(c)
  \/ \E c \in Calls, f \in LiveOutcomes : FetchDone(c, f)

Fairness == WF_vars(Progress)

SpecLive ==
  Init /\ [][\/ \E c \in Calls, q \in CoreQueries : StartCall(c, q)
             \/ Progress]_vars /\ Fairness

\* SpecTimed: the clock, in steps of one sweep interval, with the queries and
\* the fetch outcomes of Spec.  One call at a time,
\* and a call resolves within the interval in which it was issued (its caller
\* gives up after 90 s); a timer fires once the clock has reached its
\* deadline, and the clock does not pass a deadline whose timer has not fired.
StartCallTimed(c, q) ==
  /\ InFlight = {}
  /\ StartCallExec(c, q)

SessionTimeoutDue ==
  /\ expiryTimers # << >>
  /\ Head(expiryTimers) <= now
  /\ Commit(sessionExpired(State))

\* setInterval(cleanupCache, 300000) (line 1126).
CleanupDue ==
  /\ nextCleanup <= now
  /\ Commit(cleanupCache([State EXCEPT !.nextCleanup = @ + CLEANUP_INTERVAL_MS]))

Tick ==
  /\ now < MaxTicks * CLEANUP_INTERVAL_MS
  /\ InFlight = {}
  /\ nextCleanup > now
  /\ expiryTimers # << >> => Head(expiryTimers) > now
  /\ Commit([State EXCEPT !.now = @ + CLEANUP_INTERVAL_MS])

SpecTimed ==
  Init /\ [][\/ \E c \in Calls, q \in CoreQueries : StartCallTimed(c, q)
             \/ \E h \in HandshakeIds, o \in HandshakeOutcomes : HandshakeDone(h, o)
             \/ \E c \in Calls : DelayElapsed(c)
             \/ \E c \in Calls, f \in CoreOutcomes : FetchDone(c, f)
             \/ SessionTimeoutDue
             \/ CleanupDue
             \/ Tick]_vars

\* SpecSession: the session over its lifetime: ExecCalls calls, one at a time,
\* and a clock that advances by half the lifetime of a session; an expiry
\* timer fires once the clock has reached its deadline, and the clock does
\* not pass a deadline whose timer has not fired.  The sweep of the cache is
\* not followed.
TickSession ==
  /\ now < SessionTicks * (SESSION_LIFETIME_MS \div 2)
  /\ InFlight = {}
  /\ expiryTimers # << >> => Head(expiryTimers) > now
  /\ Commit([State EXCEPT !.now = @ + (SESSION_LIFETIME_MS \div 2)])

SpecSession ==
  Init /\ [][\/ \E c \in Calls, q \in CoreQueries : StartCallTimed(c, q)
             \/ \E h \in HandshakeIds, o \in HandshakeOutcomes : HandshakeDone(h, o)
             \/ \E c \in Calls : DelayElapsed(c)
             \/ \E c \in Calls, f \in CoreOutcomes : FetchDone(c, f)
             \/ SessionTimeoutDue
             \/ TickSession]_vars

\* SpecTriage: the triage of performSearchInternal and the retry branch of
\* searchFilm under every kind of response and of handshake outcome, over two
\* keys: ExecCalls calls, one at a time.
SpecTriage ==
  Init /\ [][\/ \E c \in Calls, q \in Queries : StartCallTimed(c, q)
             \/ \E h \in HandshakeIds, o \in HandshakeOutcomes : HandshakeDone(h, o)
             \/ \E c \in Calls : DelayElapsed(c)
             \/ \E c \in Calls, f \in FetchOutcomes : FetchDone(c, f)]_vars

\* SpecParse: the parsing and the caching of result pages: ExecCalls calls, one
\* at a time, over two keys; the handshake succeeds and every response passes
\* the triage of performSearchInternal.
ParsePages ==
  { MatchPage,
    EmptyPage,
    Page(TRUE, <<Dvd(1, Up)>>, FALSE),
    Page(TRUE, <<Dvd(1, Upside), Dvd(2, Up)>>, TRUE),
    Page(TRUE, <<Dvd(1, Upside)>>, TRUE),
    Page(FALSE, <<Dvd(1, Upside)>>, FALSE),
    Page(TRUE, << >>, TRUE) }

ParseOutcomes == { [rejected |-> FALSE, response |-> r] : r \in ParsePages }

SpecParse ==
  Init /\ [][\/ \E c \in Calls, q \in Queries : StartCallTimed(c, q)
             \/ \E h \in HandshakeIds : HandshakeDone(h, "ok")
             \/ \E c \in Calls : DelayElapsed(c)
             \/ \E c \in Calls, f \in ParseOutcomes : FetchDone(c, f)]_vars

\* SpecScenario: queries for a title with a comma and a blank, against pages
\* that list it: ExecCalls calls, one at a time; the handshake succeeds and
\* every response passes the triage.
ScenarioQueries ==
  { [title |-> <<"P", "a", "r", "i", "s", ",", " ", "T", "e", "x", "a", "s">>, year |-> <<"1", "9", "8", "4">>],
    [title |-> <<"P", "a", "r", "i", "s">>, year |-> NoYear] }

ScenarioPages ==
  LET ParisTexas == <<"P", "a", "r", "i", "s", ",", " ", "T", "e", "x", "a", "s">>
      Paris == <<"P", "a", "r", "i", "s">>
  IN { Page(TRUE, <<Dvd(1, ParisTexas)>>, TRUE),
       Page(TRUE, <<Dvd(1, ParisTexas)>>, FALSE),
       Page(TRUE, <<Dvd(1, Paris)>>, TRUE),
       Page(TRUE, <<Dvd(1, Paris), Dvd(2, ParisTexas)>>, TRUE),
       Page(TRUE, <<Anchor(<<"/singleHit.do?id=", 1>>, ParisTexas, {"singleHit"}, FALSE)>>,
            TRUE),
       EmptyPage }

ScenarioOutcomes == { [rejected |-> FALSE, response |-> r] : r \in ScenarioPages }

SpecScenario ==
  Init /\ [][\/ \E c \in Calls, q \in ScenarioQueries : StartCallTimed(c, q)
             \/ \E h \in HandshakeIds : HandshakeDone(h, "ok")
             \/ \E c \in Calls : DelayElapsed(c)
             \/ \E c \in Calls, f \in ScenarioOutcomes : FetchDone(c, f)]_vars

\* SpecKeys: the cache key under titles that differ in letter case and in
\* surrounding blanks, with and without a year: ExecCalls calls, one at a
\* time; the handshake succeeds and every response is parsed.
KeyTitles == { Up, <<"u", "p">>, <<" ", "U", "p">>, <<"U", "P", " ">> }

KeyQueries ==
  { [title |-> t, year |-> y] : t \in KeyTitles, y \in {NoYear, <<"0", "9">>} }

KeyOutcomes == { [rejected |-> FALSE, response |-> r] : r \in {MatchPage, EmptyPage} }

SpecKeys ==
  Init /\ [][\/ \E c \in Calls, q \in KeyQueries : StartCallTimed(c, q)
             \/ \E h \in HandshakeIds : HandshakeDone(h, "ok")
             \/ \E c \in Calls : DelayElapsed(c)
             \/ \E c \in Calls, f \in KeyOutcomes : FetchDone(c, f)]_vars

\* SpecDuplicate: identical queries in flight together: MaxCalls concurrent
\* calls for one key, as in Spec, where a response that is parsed is a page
\* that lists the film or one that does not.
SpecDuplicate ==
  Init /\ [][\/ \E c \in Calls, q \in CoreQueries : StartCall(c, q)
             \/ \E h \in HandshakeIds, o \in HandshakeOutcomes : HandshakeDone(h, o)
             \/ \E c \in Calls : DelayElapsed(c)
             \/ \E c \in Calls, f \in CoreOutcomes \cup KeyOutcomes : FetchDone(c, f)]_vars

\* --------------------------------------------------------- content script

\* The timeout timer of checkAvailability (part_002, lines 358-360) is due.
timeoutDue(s, c) == s.now >= s.callerDeadline[c]

\* checkAvailability (part_002, lines 348-366) up to its await of
\* Promise.race: the timeout timer is armed and the message is sent; the
\* worker's listener (lines 1100-1111) calls searchFilm.
checkAvailability(s, c, q) ==
  searchFilm([s EXCEPT !.caller[c] = "pending",
                       !.callerDeadline[c] = s.now + CALLER_TIMEOUT_MS], c, q)

CheckAvailability(c, q) ==
  /\ pc[c] = "idle"
  /\ c <= ExecCalls
  /\ \A d \in Calls : d < c => pc[d] = "done" /\ caller[d] # "pending"
  /\ Commit(checkAvailability(State, c, q))

\* sendResponse(result) reaches the content script: resultPromise resolves and
\* wins the race (part_002, lines 366-379).
ResponseDelivered(c) ==
  /\ pc[c] = "done"
  /\ caller[c] = "pending"
  /\ Commit([State EXCEPT !.caller[c] = "result"])

\* The timeout timer fires first: the race rejects with 'Request timeout',
\* caught at part_002 lines 381-383.
CallerTimeout(c) ==
  /\ caller[c] = "pending"
  /\ timeoutDue(State, c)
  /\ Commit([State EXCEPT !.caller[c] = "timeout"])

\* The clock of SpecCaller advances by a third of the caller's timeout; a
\* timer that is due fires and a response that was sent is delivered before
\* the clock advances again.
TickCaller ==
  /\ now < CallerTicks * (CALLER_TIMEOUT_MS \div 3)
  /\ \E c \in Calls : caller[c] = "pending"
  /\ \A c \in Calls : caller[c] = "pending" => ~timeoutDue(State, c) /\ pc[c] # "done"
  /\ Commit([State EXCEPT !.now = @ + (CALLER_TIMEOUT_MS \div 3)])

\* SpecCaller: the content script's checkAvailability in front of the worker,
\* one check at a time; the handshake and the search fetches take any amount
\* of time, and the clock is followed while a check is pending.  The run is
\* shorter than the session lifetime.
SpecCaller ==
  Init /\ [][\/ \E c \in Calls, q \in CoreQueries \cup {[year |-> NoYear]} :
                  CheckAvailability(c, q)
             \/ \E h \in HandshakeIds, o \in HandshakeOutcomes : HandshakeDone(h, o)
             \/ \E c \in Calls : DelayElapsed(c)
             \/ \E c \in Calls, f \in CoreOutcomes : FetchDone(c, f)
             \/ \E c \in Calls : ResponseDelivered(c)
             \/ \E c \in Calls : CallerTimeout(c)
             \/ TickCaller]_vars

\* SpecPaced: the delay() timers of performSearch followed on the clock, in
\* steps of half the delay, under a throttle one wider than that of the other
\* specifications: MaxCalls calls arrive at any time, the handshake succeeds,
\* the handshake and the search fetches take any amount of time, and a delay
\* timer fires when it is due.
PacedState == [State EXCEPT !.width = MAX_CONCURRENT_REQUESTS + 1]

PacedCall(c, q) ==
  /\ pc[c] = "idle"
  /\ \A d \in Calls : d < c => pc[d] # "idle"
  /\ Commit(searchFilm(PacedState, c, q))

PacedHandshake(h) ==
  /\ h \in DOMAIN handshakes
  /\ Commit(handshakeSettled(PacedState, h, "ok"))

\* The delay(100) timer of c fires: performSearchInternal issues the search
\* fetch (lines 769-790).
DelayDue(c) ==
  /\ pc[c] = "delay"
  /\ now >= delayTimers[c]
  /\ Commit([PacedState EXCEPT
              !.pc[c] = "fetching", !.fetches[c] = @ + 1,
              !.delayTimers[c] = 0,
              !.fetchedAt[c] = Append(@, [slot |-> delayTimers[c] - REQUEST_DELAY_MS,
                                          at |-> now])])

PacedFetchDone(c, settled) ==
  /\ pc[c] = "fetching"
  /\ LET r == performSearchInternal([PacedState EXCEPT !.served[c] = Append(@, settled)],
                                    c, settled) IN
     Commit(searchFilmAfterSearch(performSearchFinally(r.state, c), c, r.result))

PacedTick ==
  /\ now < PacedTicks * (REQUEST_DELAY_MS \div 2)
  /\ \A c \in Calls : pc[c] = "delay" => delayTimers[c] > now
  /\ Commit([State EXCEPT !.now = @ + (REQUEST_DELAY_MS \div 2)])

SpecPaced ==
  Init /\ [][\/ \E c \in Calls, q \in CoreQueries : PacedCall(c, q)
             \/ \E h \in HandshakeIds : PacedHandshake(h)
             \/ \E c \in Calls : DelayDue(c)
             \/ \E c \in Calls, f \in CoreOutcomes : PacedFetchDone(c, f)
             \/ PacedTick]_vars

\* ---------------------------------------------------------- content script

\* The content script of one tab (part_002).  page holds the fields of
\* HFFAvailabilityChecker and what it reads and writes in the document:
\*   kind               'list' (tiles) or 'film' (isSingleFilmPage, lines 131-147)
\*   films, tiles       what extractFilmInfo reads from tile n; tiles 1..tiles are in the document
\*   header             the title and year of the single-film page
\*   isScanning, isInitialized, processedElements, pendingChecks, observer,
\*   debouncedProcess, processTimeout
\*                      the fields of the object (observer, debouncedProcess: set or null;
\*                      processTimeout: the timer of line 506 is pending)
\*   timeout, orphans   the timer of the current debounced function is pending (line 550);
\*                      pending timers of the debounced functions of earlier scans
\*   checks             the checkAvailability calls awaiting Promise.race, oldest first
\*   loading, indicators  per tile and for the header: .hff-loading-indicator and
\*                      .hff-availability-indicator children
\*   sent               history: CHECK_AVAILABILITY messages sent
\* An element is a tile of the document or a virtual element; the indicators
\* of a virtual element go to the header (lines 320-331, 397-406, 422-442).
Tile(n) == [virtual |-> FALSE, n |-> n]
Header == [virtual |-> TRUE, n |-> 0]
headerElement(element) == IF element.virtual THEN Header ELSE element

\* The content script as constructed (lines 4-12).
HFFAvailabilityChecker(kind, films, header) ==
  [kind |-> kind, films |-> films, header |-> header, tiles |-> 1,
   isScanning |-> FALSE, isInitialized |-> FALSE,
   processedElements |-> {}, pendingChecks |-> {},
   observer |-> FALSE, debouncedProcess |-> FALSE, processTimeout |-> FALSE,
   timeout |-> FALSE, orphans |-> 0, checks |-> << >>,
   loading |-> [e \in {Tile(n) : n \in 1..MaxTiles} \cup {Header} |-> 0],
   indicators |-> [e \in {Tile(n) : n \in 1..MaxTiles} \cup {Header} |-> 0],
   sent |-> 0]

\* The tabs the content script is constructed in: one shows a list of tiles,
\* the first in the document and the others added later by lazy loading, or
\* the page of one film.  Films is what extractFilmInfo may find in a tile;
\* an empty title stands for a tile it finds no title in.
Pages ==
  LET Films == { [title |-> <<"U", "p">>, year |-> NoYear],
                 [title |-> <<"u", "p", " ">>, year |-> NoYear],
                 [title |-> <<"U", "p">>, year |-> <<"2", "0", "0", "9">>],
                 [title |-> << >>, year |-> NoYear] }
  IN { HFFAvailabilityChecker("list", fs, [title |-> << >>, year |-> NoYear]) :
         fs \in [1..MaxTiles -> Films] }
       \cup { HFFAvailabilityChecker("film", [n \in 1..MaxTiles |-> h], h) : h \in Films }

\* createCacheKey (lines 309-312).
createCacheKey(title, year) ==
  LET cleanTitle == trim(toLowerCase(title)) IN
  IF year # NoYear THEN cleanTitle \o <<"_">> \o year ELSE cleanTitle

\* clearPreviousResults (lines 77-82).
clearPreviousResults(p) ==
  [p EXCEPT !.loading = [e \in DOMAIN @ |-> 0],
            !.indicators = [e \in DOMAIN @ |-> 0],
            !.processedElements = {},
            !.pendingChecks = {}]

\* extractFilmInfo (lines 234-299), by what it finds: the dataset of a
\* virtual element, or the title and year of a tile.
extractFilmInfo(p, element) ==
  IF element.virtual THEN p.header ELSE p.films[element.n]

\* processFilmElement (lines 201-227), with addLoadingIndicator (318-341) and
\* the part of checkAvailability that runs before its await (349-368).
processFilmElement(p, element) ==
  LET filmInfo == extractFilmInfo(p, element)
      key == createCacheKey(filmInfo.title, filmInfo.year)
      marked == [p EXCEPT !.processedElements = @ \cup {element}]
  IN IF filmInfo.title = << >> THEN p
     ELSE IF key \in marked.pendingChecks THEN marked
     ELSE [marked EXCEPT
             !.loading[headerElement(element)] = @ + 1,
             !.pendingChecks = @ \cup {key},
             !.checks = Append(@, [key |-> key, element |-> element]),
             !.sent = @ + 1]

\* processSingleFilmPage (lines 152-195): a new virtual element in every
\* call, numbered after the virtual elements processedElements holds.
processSingleFilmPage(p) ==
  IF trim(p.header.title) # << >>
    THEN processFilmElement(
           [p EXCEPT !.header.title = trim(@)],
           [virtual |-> TRUE,
            n |-> Cardinality({e \in p.processedElements : e.virtual}) + 1])
    ELSE p

\* Faulty variant of processVisibleFilms: the films are processed whether or
\* not a scan is on.
processVisibleFilmsUnguarded(p) ==
  LET RECURSIVE forEach(_, _)
      forEach(q, n) ==
        IF n > q.tiles THEN q
        ELSE forEach(IF Tile(n) \in q.processedElements THEN q
                     ELSE processFilmElement(q, Tile(n)), n + 1)
  IN IF p.kind = "film" THEN processSingleFilmPage(p)
     ELSE forEach(p, 1)

\* processVisibleFilms (lines 87-126).
processVisibleFilms(p) ==
  LET RECURSIVE forEach(_, _)
      forEach(q, n) ==
        IF n > q.tiles THEN q
        ELSE forEach(IF Tile(n) \in q.processedElements THEN q
                     ELSE processFilmElement(q, Tile(n)), n + 1)
  IN IF ~p.isScanning THEN p
     ELSE IF p.kind = "film" THEN processSingleFilmPage(p)
     ELSE forEach(p, 1)

\* startScan (lines 41-59), with setupObserver (483-516) and
\* setupScrollHandler (521-530): the new debounced function has a timer of
\* its own, and a pending timer of the previous one stays pending.
startScan(p) ==
  IF p.isScanning THEN p
  ELSE LET scanned == processVisibleFilms(clearPreviousResults(
                        [p EXCEPT !.isScanning = TRUE, !.isInitialized = TRUE]))
       IN [scanned EXCEPT !.observer = TRUE,
                          !.debouncedProcess = TRUE,
                          !.orphans = IF p.timeout THEN @ + 1 ELSE @,
                          !.timeout = FALSE]

\* stopScan (lines 61-75), with removeScrollHandlers (535-541).  No timer is
\* cleared.
stopScan(p) ==
  IF ~p.isScanning THEN p
  ELSE [p EXCEPT !.isScanning = FALSE, !.observer = FALSE,
                 !.debouncedProcess = FALSE]

\* checkAvailability after its await (lines 368-388): the worker answered
\* available or not, or the race was lost to the timeout or to a
\* runtime.lastError.  removeLoadingIndicator (395-413) removes one loading
\* indicator, addAvailabilityIndicator (420-461) appends an indicator.
checkAvailabilitySettled(p, i, answer) ==
  LET check == p.checks[i]
      e == headerElement(check.element)
  IN [p EXCEPT
        !.loading[e] = IF @ > 0 THEN @ - 1 ELSE 0,
        !.indicators[e] = IF answer = "available" THEN @ + 1 ELSE @,
        !.pendingChecks = @ \ {check.key},
        !.checks = SubSeq(@, 1, i - 1) \o SubSeq(@, i + 1, Len(@))]

\* The listener of setupMessageListener (lines 25-38) receives a message.
Message(type) ==
  /\ type = "START_SCAN" => page.sent < MaxSent
  /\ Commit([State EXCEPT !.page = CASE type = "START_SCAN" -> startScan(page)
                                     [] type = "STOP_SCAN" -> stopScan(page)
                                     [] OTHER -> page])

\* A scroll or resize event while the listeners are installed: the debounced
\* function restarts its timer (lines 551-558).
Scroll ==
  /\ page.debouncedProcess
  /\ page.sent < MaxSent
  /\ Cardinality(page.processedElements) < MaxSent
  /\ (IF page.timeout THEN 0 ELSE 1) + page.orphans < MaxTimers
  /\ Commit([State EXCEPT !.page.timeout = TRUE])

\* The timer of a debounced function fires (lines 552-555, 522-526): the
\* current one or one left by an earlier scan.
Later(current) ==
  /\ IF current THEN page.timeout ELSE page.orphans > 0
  /\ LET fired == IF current THEN [page EXCEPT !.timeout = FALSE]
                  ELSE [page EXCEPT !.orphans = @ - 1]
     IN Commit([State EXCEPT !.page = IF fired.isScanning
                                        THEN processVisibleFilms(fired)
                                        ELSE fired])

\* Lazy loading adds the next tile to the document; the callback of the
\* observer, when it is connected, restarts processTimeout (lines 484-510).
Mutation ==
  /\ page.tiles < MaxTiles
  /\ Commit([State EXCEPT !.page.tiles = @ + 1,
                          !.page.processTimeout =
                             IF page.observer /\ page.isScanning THEN TRUE ELSE @])

\* The timer of line 506 fires.
ProcessTimeout ==
  /\ page.processTimeout
  /\ Commit([State EXCEPT
       !.page = processVisibleFilms([page EXCEPT !.processTimeout = FALSE])])

\* The await of a checkAvailability call is resumed.
CheckSettled(i, answer) ==
  /\ i \in DOMAIN page.checks
  /\ Commit([State EXCEPT !.page = checkAvailabilitySettled(page, i, answer)])

InitScan == Constructed /\ input = NoInput /\ output = NoOutput /\ page \in Pages

SpecScan ==
  InitScan /\ [][\/ \E type \in {"START_SCAN", "STOP_SCAN", "GET_STATUS"} : Message(type)
                 \/ Scroll
                 \/ \E current \in BOOLEAN : Later(current)
                 \/ Mutation
                 \/ ProcessTimeout
                 \/ \E i \in 1..(MaxSent + MaxTiles), answer \in {"available", "unavailable", "error"} :
                      CheckSettled(i, answer)]_vars

\* ------------------------------------------------- functions on their own

\* The function of the worker that input holds the arguments of is applied,
\* once.
Apply(value) ==
  /\ input # NoInput
  /\ output = NoOutput
  /\ Commit([State EXCEPT !.output = [value |-> value]])

\* The selection of the best match: the scores the matches may have, and the
\* lists of up to max scored matches, each match with an href of its own.
ScoredMatches(max) ==
  LET ScoreValues ==
        { Num(0), Num(50), Quot(209, 3), Num(70), Num(85), Quot(275, 3),
          Num(100), NaN }
  IN UNION { { [i \in 1..n |-> [text |-> Up, href |-> <<"/singleHit.do?id=", i>>,
                                 score |-> scores[i]]] :
               scores \in [1..n -> ScoreValues] } : n \in 0..max }

InitSelect ==
  /\ Constructed
  /\ page = NoPage
  /\ input \in { [allMatches |-> ms] : ms \in ScoredMatches(MaxMatches) }
  /\ output = NoOutput

SelectBest == Apply(selectBest(input.allMatches, 1, << >>))

SpecSelect == InitSelect /\ [][SelectBest]_vars

\* The scorer: a search title and the text of a match.  The texts are up to
\* MaxWords words of a vocabulary, joined by blanks; every search title comes
\* with the vocabulary its matches are written in.
RECURSIVE JoinWords(_)
JoinWords(words) ==
  IF Len(words) = 1 THEN words[1]
  ELSE words[1] \o <<" ">> \o JoinWords(Tail(words))

Titles(vocabulary) ==
  { JoinWords(words) : words \in UNION { [1..n -> vocabulary] : n \in 1..MaxWords } }

\* The groups of search titles, each with the vocabulary of the texts it is
\* scored against:
\*   - one word longer than two characters, or none: 'Lucky', 'O Lucky', 'O'
\*   - two such words: 'Blade Runner', 'blade  runner!', ' Blade Runner'
\*   - three to five such words: 'The Blade Runner', 'The Blade Runner Cut', 'The Blade Runner Cut Lucky'
\*   - an accented letter: 'Amélie'
\*   - no word longer than two characters: 'Up', 'It'
ScoreGroups ==
  { [searchTitles |->
       { <<"L", "u", "c", "k", "y">>,
         <<"O", " ", "L", "u", "c", "k", "y">>,
         <<"O">> },
     vocabulary |->
       { <<"L", "u", "c", "k", "y">>,
         <<"L", "u", "k", "e">>,
         <<"O">>,
         <<"M", "a", "n", "!">>,
         <<"G", "e", "t">>,
         <<"(", "2", "0", "1", "7", ")">> }],
    [searchTitles |->
       { <<"B", "l", "a", "d", "e", " ", "R", "u", "n", "n", "e", "r">>,
         <<"b", "l", "a", "d", "e", " ", " ", "r", "u", "n", "n", "e", "r", "!">>,
         <<" ", "B", "l", "a", "d", "e", " ", "R", "u", "n", "n", "e", "r">> },
     vocabulary |->
       { <<"B", "l", "a", "d", "e">>,
         <<"R", "u", "n", "n", "e", "r">>,
         <<"T", "h", "e">>,
         <<"C", "u", "t">>,
         <<"O">> }],
    [searchTitles |->
       { <<"T", "h", "e", " ", "B", "l", "a", "d", "e", " ", "R", "u", "n", "n", "e", "r">>,
         <<"T", "h", "e", " ", "B", "l", "a", "d", "e", " ", "R", "u", "n", "n", "e", "r", " ", "C", "u", "t">>,
         <<"T", "h", "e", " ", "B", "l", "a", "d", "e", " ", "R", "u", "n", "n", "e", "r", " ", "C", "u", "t", " ", "L", "u", "c", "k", "y">> },
     vocabulary |->
       { <<"T", "h", "e">>,
         <<"B", "l", "a", "d", "e">>,
         <<"R", "u", "n", "n", "e", "r">>,
         <<"C", "u", "t">>,
         <<"L", "u", "c", "k", "y">> }],
    [searchTitles |->
       { <<"A", "m", "é", "l", "i", "e">> },
     vocabulary |->
       { <<"A", "m", "é", "l", "i", "e">>,
         <<"A", "M", "É", "L", "I", "E">>,
         <<"A", "m", "e", "l", "i", "e">>,
         <<"A", "m", "é", "l", "i", "e", "!">> }],
    [searchTitles |->
       { <<"U", "p">>, <<"I", "t">> },
     vocabulary |->
       { <<"U", "p">>, <<"u", "p", "!">>, <<"I", "t">>, <<"(", "2", "0", "0", "9", ")">> }] }

\* The pairs of titles of a group.
ScoreInputs(g) ==
  { [title1 |-> t1, title2 |-> t2] :
      t1 \in g.searchTitles, t2 \in Titles(g.vocabulary) }

InitScore ==
  /\ Constructed
  /\ page = NoPage
  /\ \E g \in ScoreGroups : input \in ScoreInputs(g)
  /\ output = NoOutput

Score == Apply(calculateTitleSimilarity(input.title1, input.title2))

SpecScore == InitScore /\ [][Score]_vars

\* The parser: a result page and the title searched for.  The page has up to
\* MaxAnchors links; a link has one of two hrefs, one of three texts (two of
\* which differ in letter case only), matches the first pattern, the second
\* or both, and has a DVD or Blu-ray marker in its window or not.
PageAnchors ==
  { Anchor(<<"/singleHit.do?id=", n>>, text, patterns, media) :
      n \in 1..2, text \in {Up, <<"U", "P">>, Upside},
      patterns \in { {"zurVollanzeige"}, {"singleHit"}, {"zurVollanzeige", "singleHit"} },
      media \in BOOLEAN }

PageInputs(searchTitle) ==
  { [html |-> Page(TRUE, anchors, TRUE), searchTitle |-> searchTitle] :
      anchors \in UNION { [1..n -> PageAnchors] : n \in 0..MaxAnchors } }

InitPage ==
  /\ Constructed
  /\ page = NoPage
  /\ input \in PageInputs(Up)
  /\ output = NoOutput

\* parseSearchResults(html, searchTitle), with the values allMatches takes on
\* the way.
ParseSearchResults ==
  /\ input # NoInput
  /\ output = NoOutput
  /\ Commit([State EXCEPT !.output =
       [pooled |-> pooledMatches(input.html, 1),
        unique |-> dedupedMatches(input.html),
        allMatches |-> extract(input.html),
        value |-> parseSearchResults(input.html, input.searchTitle)]])

SpecPage == InitPage /\ [][ParseSearchResults]_vars

\* The two parsers on a page with one link, as the catalog writes it: the
\* title followed by the credits.  The link has the attribute title="zur
\* Vollanzeige" behind its href (no pattern of the worker matches it), before
\* its href (the first pattern matches), or is a singleHit.do link without the
\* attribute; it has a DVD or Blu-ray marker in its window or not; the text of
\* its parent element has an availability keyword or not, and so has the page.
CreditInputs ==
  LET Credits == <<" ", "S", "c", "o", "t", "t", ",", " ", "R", "i", "d", "l", "e", "y", ",", " ", "1", "9", "3", "7", "-", " ", "[", "R", "e", "g", "i", "s", "s", "e", "u", "r", "]">>
      Titles2 == { <<"B", "l", "a", "d", "e", " ", "R", "u", "n", "n", "e", "r">>, <<"L", "u", "c", "k", "y">> }
      Kinds == { [titleAttr |-> TRUE, patterns |-> {}],
                 [titleAttr |-> TRUE, patterns |-> {"zurVollanzeige"}],
                 [titleAttr |-> FALSE, patterns |-> {"singleHit"}] }
  IN { [html |-> Page(marker,
                      <<[href |-> <<"/detail.do?methodToCall=showDetail&id=456">>,
                         text |-> <<" ">> \o listed \o credits \o <<" ">>,
                         patterns |-> kind.patterns, media |-> media,
                         titleAttr |-> kind.titleAttr,
                         parentKeyword |-> parentKeyword]>>,
                      keyword),
        searchTitle |-> title] :
       marker \in BOOLEAN, listed \in Titles2, credits \in {Credits, << >>},
       kind \in Kinds, media \in BOOLEAN,
       parentKeyword \in BOOLEAN, keyword \in BOOLEAN, title \in Titles2 }

InitCredits ==
  /\ Constructed
  /\ page = NoPage
  /\ input \in { i \in CreditInputs : i.html.anchors[1].parentKeyword => i.html.keyword }
  /\ output = NoOutput

WorkerParses ==
  /\ input # NoInput
  /\ output = NoOutput
  /\ Commit([State EXCEPT !.output =
       [parser |-> "worker",
        value |-> parseSearchResults(input.html, input.searchTitle)]])

UtilsParses ==
  /\ input # NoInput
  /\ output = NoOutput
  /\ Commit([State EXCEPT !.output =
       [parser |-> "utils",
        value |-> utils_parseSearchResults(input.html, input.searchTitle)]])

SpecCredits ==
  InitCredits /\ [][WorkerParses \/ UtilsParses]_vars

\* ----------------------------------------------------------------- claims

Range(seq) == {seq[i] : i \in DOMAIN seq}
Pos(x, seq) == CHOOSE i \in DOMAIN seq : seq[i] = x
Idle == \A c \in Calls : pc[c] \in {"idle", "done"}

\* C1: the callers holding a throttle slot (from waitForRequestSlot resolving to
\* releaseRequestSlot) never number more than MAX_CONCURRENT_REQUESTS, and a
\* search fetch, the retry's included, is in flight only while its caller
\* holds a slot.
ThrottleBound ==
  /\ Cardinality(holders) <= MAX_CONCURRENT_REQUESTS
  /\ \A c \in Calls : pc[c] = "fetching" => c \in holders

\* The retry fetch of one call is in flight while another call is queued.
ThrottleBoundWitness ==
  \E c \in Calls :
    /\ pc[c] = "fetching"
    /\ attempt[c] = 2
    /\ c \in holders
    /\ requestQueue # << >>

\* C2: at most one handshake fetch is outstanding at any time, and the callers
\* that awaited the same handshake are all resolved with the same value.
SameOutcome ==
  \A h \in DOMAIN handshakes :
    h \notin DOMAIN handshakes' =>
      \A c1, c2 \in Range(handshakes[h]) :
        /\ ensured'[c1] = ensured'[c2]
        /\ ensured'[c1] # << >>

SharedHandshake ==
  /\ [](Cardinality(DOMAIN handshakes) <= 1)
  /\ [][SameOutcome]_vars

\* Two callers await the promise of one handshake.
SharedHandshakeWitness ==
  \E h \in DOMAIN handshakes : Len(handshakes[h]) >= 2

\* C3: a call whose latest ensureSession resolved false has no search fetch in
\* flight.
NoSearchWithoutSession ==
  \A c \in Calls : pc[c] = "fetching" => ensured[c] # <<FALSE>>

\* C4: a call issues at most two search fetches, the second only after the
\* first performSearch returned 'Session expired', and whatever the second
\* returns is what the call returns.
RetryBudget ==
  \A c \in Calls :
    /\ fetches[c] <= 2
    /\ fetches[c] = 2 => (outcomes[c] # << >> /\ IsSessionExpired(outcomes[c][1]))
    /\ Len(outcomes[c]) = 2 => (pc[c] = "done" /\ result[c] = outcomes[c][2])

\* A call has returned 'Session expired' after its second fetch.
RetryBudgetWitness ==
  \E c \in Calls :
    /\ pc[c] = "done"
    /\ fetches[c] = 2
    /\ IsSessionExpired(result[c])

\* C5: when the first response is session-expired and the retry's is parsed,
\* the call returns the parsed result, and it has awaited exactly one
\* handshake between the two fetches.
SingleRehandshake ==
  \A c \in Calls :
    /\ fetches[c] = 2 => rehandshakes[c] = 1
    /\ (Len(outcomes[c]) = 2 /\ ~HasError(outcomes[c][2])) =>
         /\ IsSessionExpired(outcomes[c][1])
         /\ pc[c] = "done"
         /\ result[c] = outcomes[c][2]
         /\ rehandshakes[c] = 1

\* A call has returned a match after a session-expired first response.
SingleRehandshakeWitness ==
  \E c \in Calls :
    /\ pc[c] = "done"
    /\ Len(outcomes[c]) = 2
    /\ ~HasError(result[c])
    /\ result[c].available

\* C6: every performSearch that has returned has released its slot once, a
\* slot is held exactly by the callers inside performSearch, and
\* activeRequests is 0 when no call is in flight.
SlotsReleased ==
  /\ \A c \in Calls : released[c] = Len(outcomes[c])
  /\ \A c \in Calls : acquired[c] - released[c] = (IF c \in holders THEN 1 ELSE 0)
  /\ Idle => activeRequests = 0

\* All calls have resolved, one with an error after its fetch, one with a result.
SlotsReleasedWitness ==
  /\ \A c \in Calls : pc[c] = "done"
  /\ \E c \in Calls : released[c] >= 1 /\ HasError(result[c])
  /\ \E c \in Calls : released[c] >= 1 /\ ~HasError(result[c])
  /\ activeRequests = 0

FifoStep ==
  \A c \in holders' \ holders :
    \A d \in Range(requestQueue) \cap Range(requestQueue') :
      /\ c \in Range(requestQueue)
      /\ Pos(c, requestQueue) < Pos(d, requestQueue)

FifoAdmission == [][FifoStep]_vars

\* A slot has been released and taken again while a caller is still queued
\* behind a second one.
FifoAdmissionWitness ==
  /\ \E c \in Calls : released[c] >= 1
  /\ holders # {}
  /\ Len(requestQueue) >= 1
  /\ \E c \in holders : \A d \in Range(requestQueue) : c < d /\ c > 1

\* C9: the same query issued a second time after the first call resolved (and
\* by no other call).
Repeats(c1, c2) ==
  /\ c1 \in doneBefore[c2]
  /\ pc[c2] = "done"
  /\ \A d \in Calls \ {c1, c2} :
       pc[d] = "idle" \/
       cacheKey(query[d].title, query[d].year) # cacheKey(query[c1].title, query[c1].year)

CacheEvicted ==
  \A k \in DOMAIN searchCache :
    now - storedAt[k] <= CACHE_MAX_AGE_MS + CLEANUP_INTERVAL_MS

\* C11: when the caller's timeout has fired while the query was unfinished,
\* the step that finishes the query writes no cache entry.
TimedOutStep ==
  \A c \in Calls :
    (caller[c] = "timeout" /\ pc[c] # "done" /\ pc'[c] = "done") =>
      searchCache' = searchCache

TimedOutUncached == [][TimedOutStep]_vars

\* C13: a call that has returned has returned a QueryResult (an object with a
\* boolean available), the promise of searchFilm is never rejected, and a
\* caller's check is not pending after its timeout is due.
IsQueryResult(res) ==
  /\ "available" \in DOMAIN res
  /\ res.available \in BOOLEAN
  /\ DOMAIN res \subseteq {"available", "link", "title", "matchScore", "note", "error"}

AlwaysSettles ==
  \A c \in Calls :
    /\ pc[c] = "done" => IsQueryResult(result[c])
    /\ caller[c] = "result" => IsQueryResult(result[c])
    /\ caller[c] = "pending" => now <= callerDeadline[c]

\* One check was answered with the error result of a message without a title,
\* another was settled by its timeout while its query was still unfinished.
AlwaysSettlesWitness ==
  /\ \E c \in Calls :
       caller[c] = "result" /\ ~HasTitle(query[c]) /\ HasError(result[c])
  /\ \E c \in Calls :
       caller[c] = "timeout" /\ pc[c] # "done" /\ now >= callerDeadline[c]

\* The result of the performSearch of c that returns in this step, if one does.
Returned(c) == Len(outcomes'[c]) = Len(outcomes[c]) + 1
LastOutcome(c) == outcomes'[c][Len(outcomes'[c])]

\* C12: no stored result carries an error field, a call that returns an error
\* returns available = false, and a performSearch that returns an error
\* (transport error, non-2xx, error page, session expiry) leaves searchCache
\* as it was.
ErrorLeavesCache ==
  \A c \in Calls :
    (Returned(c) /\ HasError(LastOutcome(c))) => searchCache' = searchCache

ErrorsUncached ==
  /\ [](\A k \in DOMAIN searchCache : ~HasError(searchCache[k]))
  /\ [](\A c \in Calls :
          (pc[c] = "done" /\ HasError(result[c])) =>
            (result[c].available = FALSE /\ result[c].error # ""))
  /\ [][ErrorLeavesCache]_vars

\* A call has returned its second 'Session expired' while the cache holds the
\* result of another query and nothing under the key of this one.
ErrorsUncachedWitness ==
  \E c \in Calls :
    /\ pc[c] = "done"
    /\ Len(outcomes[c]) = 2
    /\ IsSessionExpired(result[c])
    /\ searchCache # << >>
    /\ cacheKey(query[c].title, query[c].year) \notin DOMAIN searchCache

\* C14: a performSearch that returns an error other than 'Session expired'
\* ends the call with that result: no further fetch, no invalidation of the
\* session, no handshake; and it was the only fetch unless it was the retry
\* after a session expiry.
OtherError(res) == HasError(res) /\ ~IsSessionExpired(res)

NoRetryStep ==
  \A c \in Calls :
    (Returned(c) /\ OtherError(LastOutcome(c))) =>
      /\ pc'[c] = "done"
      /\ result'[c] = LastOutcome(c)
      /\ fetches'[c] = fetches[c]
      /\ Len(outcomes'[c]) = 1 => fetches'[c] = 1
      /\ sessionInitialized' = sessionInitialized
      /\ sessionInitPromise' = sessionInitPromise
      /\ DOMAIN handshakes' = DOMAIN handshakes
      /\ rehandshakes'[c] = rehandshakes[c]

OnlyExpiryRetried ==
  /\ [](\A c \in Calls : fetches[c] = 2 => IsSessionExpired(outcomes[c][1]))
  /\ [][NoRetryStep]_vars

\* A call has returned an error page after one fetch and the session it used
\* is still live.
OnlyExpiryRetriedWitness ==
  \E c \in Calls :
    /\ pc[c] = "done"
    /\ fetches[c] = 1
    /\ HasError(result[c])
    /\ result[c].error = "HFF returned error page"
    /\ rehandshakes[c] = 0
    /\ sessionInitialized

\* The response that the last search fetch of c settled with, once c has
\* returned after a fetch, passed the triage of performSearchInternal.
Parsed(c) ==
  /\ pc[c] = "done"
  /\ served[c] # << >>
  /\ ~HasError(result[c])

LastPage(c) == served[c][Len(served[c])].response
KeyOf(c) == cacheKey(query[c].title, query[c].year)

\* C15: every result that was returned or is stored with available = true has
\* a link and a title.
AvailableHasLink ==
  /\ \A c \in Calls :
       (pc[c] = "done" /\ result[c].available) =>
         {"link", "title"} \subseteq DOMAIN result[c]
  /\ \A k \in DOMAIN searchCache :
       searchCache[k].available => {"link", "title"} \subseteq DOMAIN searchCache[k]

\* An available result, chosen among two candidates, was returned and is
\* stored.
AvailableHasLinkWitness ==
  \E c \in Calls :
    /\ Parsed(c)
    /\ Len(extract(LastPage(c))) = 2
    /\ result[c].available
    /\ result[c].title = Up
    /\ KeyOf(c) \in DOMAIN searchCache
    /\ searchCache[KeyOf(c)] = result[c]

\* No candidate of the page reaches the threshold.
NoneMatched(c) ==
  selectBest(scoreMatches(extract(LastPage(c)), query[c].title), 1, << >>) = << >>

\* C16 as stated: a page with the result-count marker and no matched candidate
\* is stored as available = false with a note, and a repeat of the query is
\* served from the cache.
MarkerGivesNote ==
  /\ \A c \in Calls :
       (Parsed(c) /\ LastPage(c).marker /\ NoneMatched(c)) =>
         /\ KeyOf(c) \in DOMAIN searchCache
         /\ searchCache[KeyOf(c)].available = FALSE
         /\ "note" \in DOMAIN searchCache[KeyOf(c)]
  /\ \A c1, c2 \in Calls :
       (Repeats(c1, c2) /\ Parsed(c1)) => fetches[c2] = 0

\* C16, amended: a page with no matched candidate is stored as available =
\* false, with a note exactly when at least one candidate is left after the
\* media filter (the result-count marker plays no part), and a repeat of the
\* query is served from the cache with the same result.
CandidatesGiveNote ==
  /\ \A c \in Calls :
       (Parsed(c) /\ fetches[c] >= 1 /\ NoneMatched(c)) =>
         /\ KeyOf(c) \in DOMAIN searchCache
         /\ searchCache[KeyOf(c)] = result[c]
         /\ result[c].available = FALSE
         /\ ("note" \in DOMAIN result[c]) <=> (Len(extract(LastPage(c))) > 0)
  /\ \A c1, c2 \in Calls :
       (Repeats(c1, c2) /\ Parsed(c1)) =>
         (fetches[c2] = 0 /\ result[c2] = result[c1])

\* A page with the marker and an unmatched candidate was stored with its
\* note, and the repeat of the query got it from the cache.
CandidatesGiveNoteWitness ==
  \E c1, c2 \in Calls :
    /\ Repeats(c1, c2)
    /\ Parsed(c1)
    /\ LastPage(c1).marker
    /\ Len(extract(LastPage(c1))) = 1
    /\ "note" \in DOMAIN result[c1]
    /\ fetches[c2] = 0
    /\ "note" \in DOMAIN result[c2]

\* C17: a page that passes the triage and has no candidate gives exactly
\* {available: false}, and that is what the cache holds under the query's key.
EmptyIsCached ==
  \A c \in Calls :
    (Parsed(c) /\ fetches[c] >= 1 /\ extract(LastPage(c)) = << >>) =>
      /\ result[c] = [available |-> FALSE]
      /\ KeyOf(c) \in DOMAIN searchCache
      /\ searchCache[KeyOf(c)] = [available |-> FALSE]

\* A call has returned {available: false} for a page without candidates.
EmptyIsCachedWitness ==
  \E c \in Calls :
    /\ Parsed(c)
    /\ fetches[c] = 1
    /\ LastPage(c) = EmptyPage
    /\ result[c] = [available |-> FALSE]
    /\ DOMAIN searchCache = {KeyOf(c)}

\* The key as the claim describes it.
NormalizedKey(title, year) ==
  toLowerCase(trim(title)) \o <<"_">> \o (IF year = NoYear THEN NO_YEAR_SENTINEL ELSE year)

\* C18: the key of every query is its lowercased, trimmed title joined by '_'
\* to the year or to 'no-year', and a query whose title differs from that of
\* an earlier, parsed query only in letter case or surrounding blanks (same
\* year) is served from the cache entry of the earlier one.
TrimmedKeyShared ==
  /\ \A c \in Calls :
       pc[c] # "idle" => KeyOf(c) = NormalizedKey(query[c].title, query[c].year)
  /\ \A c1, c2 \in Calls :
       ( /\ c1 < c2
         /\ Parsed(c1)
         /\ pc[c2] = "done"
         /\ NormalizedKey(query[c1].title, query[c1].year)
              = NormalizedKey(query[c2].title, query[c2].year) ) =>
         (fetches[c2] = 0 /\ result[c2] = result[c1])

\* Call c arrives in this step and is not answered at once from the cache or
\* by the catch: it calls ensureSession.
CallsEnsure(c) == pc[c] = "idle" /\ pc'[c] \notin {"idle", "done"}

\* In this step c starts a handshake of its own.
StartsHandshake(c) ==
  /\ pc'[c] = "awaitSession"
  /\ sessionInitPromise' # {}
  /\ \E h \in DOMAIN handshakes' \ DOMAIN handshakes : handshakes'[h] = <<c>>

\* C19: the session is marked live only while the expiry timer of a handshake
\* that succeeded at most SESSION_LIFETIME_MS ago is pending, and a call that
\* calls ensureSession after the last such timer has fired starts a handshake.
ExpiredStep ==
  \A c \in Calls :
    (CallsEnsure(c) /\ expiryTimers = << >> /\ sessionInitPromise = {}) =>
      StartsHandshake(c)

SessionSelfExpires ==
  /\ [](sessionInitialized =>
          /\ expiryTimers # << >>
          /\ now <= expiryTimers[Len(expiryTimers)]
          /\ \A i \in DOMAIN expiryTimers : expiryTimers[i] <= now + SESSION_LIFETIME_MS)
  /\ [][ExpiredStep]_vars

\* A session was established for one call, its expiry timer has fired, and
\* a later call is awaiting a new handshake.
SessionSelfExpiresWitness ==
  \E c1, c2 \in Calls :
    /\ ensured[c1] = <<TRUE>>
    /\ rehandshakes[c1] = 0
    /\ pc[c1] = "done"
    /\ now >= SESSION_LIFETIME_MS
    /\ expiryTimers = << >>
    /\ ~sessionInitialized
    /\ pc[c2] = "awaitSession"
    /\ attempt[c2] = 1

\* C20: the step in which a handshake fails leaves no live session and no
\* handshake in flight; sessionInitPromise is set exactly while a handshake
\* is in flight; and a call that calls ensureSession in that state starts a
\* handshake of its own.
HandshakeFails(h) ==
  /\ h \in DOMAIN handshakes
  /\ h \notin DOMAIN handshakes'
  /\ ensured'[Head(handshakes[h])] = <<FALSE>>

FailureStep ==
  \A h \in HandshakeIds :
    HandshakeFails(h) =>
      /\ ~sessionInitialized'
      /\ sessionInitPromise' = {}
      /\ handshakes' = << >>

FreshStep ==
  \A c \in Calls :
    (CallsEnsure(c) /\ ~sessionInitialized /\ sessionInitPromise = {}) =>
      StartsHandshake(c)

FailureForgotten ==
  /\ [](sessionInitPromise = {} <=> handshakes = << >>)
  /\ [][FailureStep]_vars
  /\ [][FreshStep]_vars

\* The handshake of one call has failed and a later call is awaiting a
\* handshake of its own.
FailureForgottenWitness ==
  \E c1, c2 \in Calls, h \in DOMAIN handshakes :
    /\ c1 # c2
    /\ ensured[c1] = <<FALSE>>
    /\ pc[c2] = "awaitSession"
    /\ attempt[c2] = 1
    /\ handshakes[h] = <<c2>>

\* A function applied on its own has returned.
Applied == output # NoOutput

\* C21: the best match is the first of the matches with the highest score
\* among those that score at least 70, and there is no best match exactly
\* when no match scores at least 70.
BestIsFirstHighest ==
  Applied =>
    LET allMatches == input.allMatches
        bestMatch == output.value
        Passing == { i \in DOMAIN allMatches :
                       Geq(allMatches[i].score, Num(MATCH_THRESHOLD)) }
    IN /\ (bestMatch = << >>) <=> (Passing = {})
       /\ bestMatch # << >> =>
            \E i \in Passing :
              /\ bestMatch = <<allMatches[i]>>
              /\ \A j \in Passing : Geq(allMatches[i].score, allMatches[j].score)
              /\ \A j \in Passing :
                   j < i => allMatches[j].score # allMatches[i].score

\* The selection has kept the first of two matches that share the highest
\* score, the second being the last of the list.
BestIsFirstHighestWitness ==
  /\ Applied
  /\ Len(input.allMatches) = 3
  /\ input.allMatches[1].score = Num(50)
  /\ input.allMatches[2].score = Num(85)
  /\ input.allMatches[3].score = Num(85)
  /\ output.value = <<input.allMatches[2]>>

\* C22: the score of every search title and match text is a number between
\* 0 and 100, and a second call with the same arguments returns the same.
ScoreInRange ==
  Applied =>
    /\ Geq(output.value, Num(0))
    /\ Geq(Num(100), output.value)
    /\ calculateTitleSimilarity(input.title1, input.title2) = output.value

\* The titles the claims about the scorer name.
BladeRunner == <<"B", "l", "a", "d", "e", " ", "R", "u", "n", "n", "e", "r">>
Amelie == <<"A", "m", "e", "l", "i", "e">>
AmelieAccent == <<"A", "m", "é", "l", "i", "e">>

\* Equal when the letter case is ignored.
EqualIgnoringCase(a, b) == toLowerCase(a) = toLowerCase(b)

\* Equal when the case is ignored, the punctuation is stripped and the
\* whitespace is normalized.
PunctuationStripped(str) ==
  SelectSeq(str, LAMBDA ch : IsLetter(ch) \/ ch \in DIGITS \/ ch = " ")
StrippedEqual(a, b) ==
  trim(collapseSpaces(PunctuationStripped(toLowerCase(a))))
    = trim(collapseSpaces(PunctuationStripped(toLowerCase(b))))

\* C23, as stated: the score is 100 when the titles are equal ignoring letter
\* case, and 95 when they are not but are equal after stripping punctuation
\* and normalizing whitespace.
ExactOrStripped ==
  Applied =>
    /\ EqualIgnoringCase(input.title1, input.title2) => output.value = Num(100)
    /\ (~EqualIgnoringCase(input.title1, input.title2)
          /\ StrippedEqual(input.title1, input.title2)) => output.value = Num(95)

\* C23, amended: the score is 100 when the titles are equal ignoring letter
\* case and surrounding whitespace, 95 when they are not but are equal after
\* stripping punctuation and normalizing whitespace; an accented letter is
\* not equal to its plain letter; 'Blade Runner' scores 100 against itself.
ExactOrStrippedTrimmed ==
  Applied =>
    /\ EqualIgnoringCase(trim(input.title1), trim(input.title2))
         => output.value = Num(100)
    /\ (~EqualIgnoringCase(trim(input.title1), trim(input.title2))
          /\ StrippedEqual(input.title1, input.title2)) => output.value = Num(95)
    /\ (input.title1 = AmelieAccent /\ input.title2 = Amelie)
         => Gt(Num(MATCH_THRESHOLD), output.value)
    /\ (input.title1 = BladeRunner /\ input.title2 = BladeRunner)
         => output.value = Num(100)

\* A title written in lower case, with two blanks and an exclamation mark,
\* has scored 95 against the catalog's spelling.
ExactOrStrippedTrimmedWitness ==
  /\ Applied
  /\ input.title1 = <<"b", "l", "a", "d", "e", " ", " ", "r", "u", "n", "n", "e", "r", "!">>
  /\ input.title2 = BladeRunner
  /\ output.value = Num(95)

\* The words longer than two characters of a title.
SignificantTokens(title) == getWords(normalize(title))

\* The titles are neither equal ignoring case nor equal after normalization.
NoPlainMatch(a, b) ==
  /\ ~EqualIgnoringCase(trim(a), trim(b))
  /\ ~StrippedEqual(a, b)

\* The candidate starts with the token, which is followed by a parenthesis, a
\* digit or the end of the string.
LeadsWithToken(token, candidate) ==
  LET lower == trim(toLowerCase(candidate)) IN
  /\ startsWith(lower, token)
  /\ LET rest == trimStart(SubSeq(lower, Len(token) + 1, Len(lower)))
     IN rest = << >> \/ rest[1] \in {"(", "["} \cup DIGITS

\* C24: for a search title with one significant token that matches neither
\* exactly nor after normalization, the score is 90 when the candidate is that
\* single token, 80 when the candidate starts with the token followed by a
\* parenthesis, a digit or the end and has at most two significant tokens, 20
\* when the token occurs in the candidate otherwise, and 10 when it does not.
SingleTokenScore ==
  (Applied /\ Len(SignificantTokens(input.title1)) = 1
           /\ NoPlainMatch(input.title1, input.title2)) =>
    LET token == SignificantTokens(input.title1)[1]
        candidateTokens == SignificantTokens(input.title2)
    IN output.value =
         IF candidateTokens = <<token>> THEN Num(90)
         ELSE IF LeadsWithToken(token, input.title2) /\ Len(candidateTokens) <= 2
           THEN Num(80)
         ELSE IF includes(candidateTokens, token) THEN Num(20)
         ELSE Num(10)

\* C25: for a search title with two significant tokens that matches neither
\* exactly nor after normalization, the score is 85 when the candidate's first
\* two significant tokens are the two tokens in order and the candidate has at
\* most three, 75 when they are in order at the start of a longer candidate,
\* 75 when both occur anywhere in a candidate of at most three, 50 when both
\* occur in a longer one, and 15 otherwise.
TwoTokenScore ==
  (Applied /\ Len(SignificantTokens(input.title1)) = 2
           /\ NoPlainMatch(input.title1, input.title2)) =>
    LET tokens == SignificantTokens(input.title1)
        candidateTokens == SignificantTokens(input.title2)
        short == Len(candidateTokens) <= 3
        inOrderAtStart ==
          /\ Len(candidateTokens) >= 2
          /\ SubSeq(candidateTokens, 1, 2) = tokens
        bothOccur ==
          \A i \in 1..2 : \E j \in DOMAIN candidateTokens :
            candidateTokens[j] = tokens[i]
    IN output.value =
         IF inOrderAtStart THEN (IF short THEN Num(85) ELSE Num(75))
         ELSE IF bothOccur THEN (IF short THEN Num(75) ELSE Num(50))
         ELSE Num(15)

\* 'Blade Runner' has scored 50 against a four-word candidate that has both
\* words, not at its start.
TwoTokenScoreWitness ==
  /\ Applied
  /\ input.title1 = BladeRunner
  /\ input.title2 = <<"T", "h", "e", " ", "R", "u", "n", "n", "e", "r", " ", "C", "u", "t", " ", "B", "l", "a", "d", "e">>
  /\ output.value = Num(50)

\* The number v is the fraction n / d.
IsFraction(v, n, d) == v.den # 0 /\ v.num * d = n * v.den

\* The smaller of two integers.
Least(m, n) == IF m <= n THEN m ELSE n

\* C26: for a search title with three or more significant tokens that matches
\* neither exactly nor after normalization, with coverage = common / query
\* tokens, overlap = common / max(query tokens, candidate tokens) and bonus =
\* 20 * leading run / query tokens, the score is min(95, 85 + bonus) when
\* coverage >= 0.8 and overlap >= 0.5, else min(85, 70 + bonus) when coverage
\* >= 0.6 and overlap >= 0.4, else 50 + bonus / 2 when coverage >= 0.5, else
\* overlap * 40; it reaches 70 exactly when coverage >= 0.6 and overlap >= 0.4.
LongTitleScore ==
  (Applied /\ Len(SignificantTokens(input.title1)) >= 3
           /\ NoPlainMatch(input.title1, input.title2)) =>
    LET tokens == SignificantTokens(input.title1)
        candidateTokens == SignificantTokens(input.title2)
        n == Len(tokens)
        longest == IF n >= Len(candidateTokens) THEN n ELSE Len(candidateTokens)
        common == Cardinality({ i \in 1..n : \E j \in DOMAIN candidateTokens :
                                  candidateTokens[j] = tokens[i] })
        run == Cardinality({ i \in 1..n :
                 \A k \in 1..i : k <= Len(candidateTokens)
                                   /\ candidateTokens[k] = tokens[k] })
    IN /\ IF 10 * common >= 8 * n /\ 10 * common >= 5 * longest
            THEN IsFraction(output.value, Least(95 * n, 85 * n + 20 * run), n)
          ELSE IF 10 * common >= 6 * n /\ 10 * common >= 4 * longest
            THEN IsFraction(output.value, Least(85 * n, 70 * n + 20 * run), n)
          ELSE IF 10 * common >= 5 * n
            THEN IsFraction(output.value, 50 * n + 10 * run, n)
          ELSE IsFraction(output.value, 40 * common, longest)
       /\ Geq(output.value, Num(MATCH_THRESHOLD))
            <=> (10 * common >= 6 * n /\ 10 * common >= 4 * longest)

\* A five-word title has scored 82 against a candidate made of its first
\* three words: coverage 0.6, overlap 0.6, bonus 12.
LongTitleScoreWitness ==
  /\ Applied
  /\ input.title1 = <<"T", "h", "e", " ", "B", "l", "a", "d", "e", " ", "R", "u", "n", "n", "e", "r", " ", "C", "u", "t", " ", "L", "u", "c", "k", "y">>
  /\ input.title2 = <<"T", "h", "e", " ", "B", "l", "a", "d", "e", " ", "R", "u", "n", "n", "e", "r">>
  /\ output.value = Num(82)

\* The matches of a list whose text is the given one, letter case ignored.
WithText(matches, text) ==
  SelectSeq(matches, LAMBDA m : toLowerCase(m.text) = toLowerCase(text))

\* C27, as stated: a title that is matched more than once, by two patterns or
\* in two spellings, is returned by the extraction exactly once, as its first
\* match in pattern order; no two returned matches have texts equal up to
\* letter case.
ExtractedOnce ==
  Applied =>
    /\ \A i \in DOMAIN output.pooled :
         Len(WithText(output.pooled, output.pooled[i].text)) >= 2 =>
           WithText(output.allMatches, output.pooled[i].text)
             = <<WithText(output.pooled, output.pooled[i].text)[1]>>
    /\ \A i, j \in DOMAIN output.allMatches :
         toLowerCase(output.allMatches[i].text) = toLowerCase(output.allMatches[j].text)
           => i = j

\* C27, amended: after the deduplication every matched title is kept exactly
\* once, as its first match in pattern order; the extraction returns that
\* match when a DVD or Blu-ray marker stands in the window of its href and no
\* match of that title otherwise; no two returned matches have texts equal up
\* to letter case.
DedupedOnce ==
  Applied =>
    /\ \A i \in DOMAIN output.pooled :
         LET first == WithText(output.pooled, output.pooled[i].text)[1] IN
         /\ WithText(output.unique, output.pooled[i].text) = <<first>>
         /\ WithText(output.allMatches, output.pooled[i].text)
              = IF isDvdOrBluray(input.html, first.href) THEN <<first>> ELSE << >>
    /\ \A i, j \in DOMAIN output.allMatches :
         toLowerCase(output.allMatches[i].text) = toLowerCase(output.allMatches[j].text)
           => i = j

\* A page with one title in two spellings, the second matched by an earlier
\* pattern and both marked as DVD, has been parsed: the match of the earlier
\* pattern alone is returned.
DedupedOnceWitness ==
  /\ Applied
  /\ Len(input.html.anchors) = 2
  /\ input.html.anchors[1].text = Up
  /\ input.html.anchors[1].patterns = {"singleHit"}
  /\ input.html.anchors[2].text = <<"U", "P">>
  /\ input.html.anchors[2].patterns = {"zurVollanzeige"}
  /\ input.html.anchors[1].href # input.html.anchors[2].href
  /\ input.html.anchors[1].media /\ input.html.anchors[2].media
  /\ Len(output.pooled) = 2
  /\ output.allMatches = <<[href |-> input.html.anchors[2].href, text |-> <<"U", "P">>]>>

ParisTexas == <<"P", "a", "r", "i", "s", ",", " ", "T", "e", "x", "a", "s">>
ParisTexasLink ==
  <<"https://webopac.hff-muc.de/webOPACClient.hffsis/start.do?Branch=00&Query=-1=%22",
    "P", "a", "r", "i", "s", "%2C", "%20", "T", "e", "x", "a", "s", "%22">>

\* The page has one link, marked as DVD, whose text is the title of the query,
\* and an availability keyword.
OneDvdAnchorOfTitle(c) ==
  /\ Len(LastPage(c).anchors) = 1
  /\ LastPage(c).anchors[1].media
  /\ LastPage(c).anchors[1].text = query[c].title
  /\ LastPage(c).keyword

\* C29: a query {title, year} answered by a page with one DVD link whose text
\* is the title and with an availability keyword results in available = true,
\* the link's text as title, the score 100 and the search link with the
\* percent-encoded text between %22; for 'Paris, Texas' the link ends in
\* %22Paris%2C%20Texas%22.
ScenarioResult ==
  \A c \in Calls :
    (Parsed(c) /\ OneDvdAnchorOfTitle(c)) =>
      /\ DOMAIN result[c] = {"available", "link", "title", "matchScore"}
      /\ result[c].available
      /\ result[c].title = LastPage(c).anchors[1].text
      /\ result[c].matchScore = Num(100)
      /\ result[c].link[1] = SEARCH_LINK_PREFIX
      /\ result[c].link[Len(result[c].link)] = "%22"
      /\ \A i \in 2..(Len(result[c].link) - 1) :
           result[c].link[i] \notin {" ", ",", "\"", "&", "?"}
      /\ query[c].title = ParisTexas => result[c].link = ParisTexasLink

\* The query {title: 'Paris, Texas', year: '1984'} has been answered from such
\* a page.
ScenarioResultWitness ==
  \E c \in Calls :
    /\ Parsed(c)
    /\ OneDvdAnchorOfTitle(c)
    /\ query[c] = [title |-> ParisTexas, year |-> <<"1", "9", "8", "4">>]
    /\ result[c].link = ParisTexasLink

\* The page's link has the attribute title="zur Vollanzeige", its text is the
\* title searched for followed by credits, and an availability keyword stands
\* next to it.
TitleWithCredits ==
  /\ Applied
  /\ input.html.anchors[1].titleAttr
  /\ startsWith(trim(input.html.anchors[1].text), input.searchTitle)
  /\ Len(trim(input.html.anchors[1].text)) > Len(input.searchTitle)
  /\ input.html.anchors[1].parentKeyword

FetchEvents ==
  UNION { { [call |-> c, n |-> i, slot |-> fetchedAt[c][i].slot, at |-> fetchedAt[c][i].at] :
              i \in DOMAIN fetchedAt[c] } : c \in Calls }

\* C31: every search fetch is issued by a call that holds a slot, not before
\* the delay has elapsed since the slot was acquired, and any two search
\* fetches are at least the delay apart.
FetchesPaced ==
  /\ \A c \in Calls : pc[c] = "fetching" => c \in holders
  /\ \A e \in FetchEvents : e.at >= e.slot + REQUEST_DELAY_MS
  /\ \A e, f \in FetchEvents :
       e # f => (e.at - f.at >= REQUEST_DELAY_MS \/ f.at - e.at >= REQUEST_DELAY_MS)

\* C32: a call whose key is in searchCache returns the stored result in the
\* task of its message: ensureSession is not called, no slot is acquired, no
\* fetch is issued, and the session, the throttle and the cache are left as
\* they were.
CacheHitFrame ==
  [][\A c \in Calls :
       (/\ pc[c] = "idle" /\ pc'[c] # "idle"
        /\ HasTitle(query'[c])
        /\ cacheKey(query'[c].title, query'[c].year) \in DOMAIN searchCache)
       => /\ pc'[c] = "done"
          /\ result'[c] = searchCache[cacheKey(query'[c].title, query'[c].year)]
          /\ ensured'[c] = << >> /\ acquired'[c] = 0 /\ fetches'[c] = 0
          /\ UNCHANGED << searchCache, sessionInitialized, sessionInitPromise,
                          activeRequests, requestQueue, handshakes, expiryTimers,
                          holders >>]_vars

\* A call has been answered from the cache while another call held the slot
\* and a third was queued or yet to come.
CacheHitFrameWitness ==
  \E c, d \in Calls :
    /\ pc[c] = "done" /\ fetches[c] = 0 /\ ensured[c] = << >>
    /\ ~HasError(result[c]) /\ result[c] # NoResult
    /\ d < c /\ pc[d] \in {"delay", "fetching"} /\ activeRequests = 1

\* C33: the content script sends no CHECK_AVAILABILITY message before it has
\* received START_SCAN, and none in a step that leaves it not scanning: after
\* STOP_SCAN neither a scroll or resize event, nor a mutation, nor a debounce
\* timer that was pending starts a check until START_SCAN is received again.
\* START_SCAN while scanning and STOP_SCAN while not scanning change nothing.
ScanGated ==
  [][/\ page.sent > 0 => page.isInitialized
     /\ page'.sent # page.sent => page'.isScanning
     /\ page.isScanning => startScan(page) = page
     /\ ~page.isScanning => stopScan(page) = page]_vars

\* A scan was stopped while a tile that lazy loading added had not been
\* processed and both debounce timers were pending.
ScanGatedWitness ==
  /\ page.isInitialized /\ ~page.isScanning
  /\ page.processTimeout /\ page.orphans + (IF page.timeout THEN 1 ELSE 0) > 0
  /\ page.kind = "list" /\ page.tiles = 2
  /\ Tile(2) \notin page.processedElements
  /\ page.films[2].title # << >>
  /\ createCacheKey(page.films[2].title, page.films[2].year) \notin page.pendingChecks

\* C38: at most one CHECK_AVAILABILITY request is outstanding per film key,
\* and pendingChecks holds exactly the keys of the checks in flight.
OneCheckPerKey ==
  /\ \A i, j \in DOMAIN page.checks :
       page.checks[i].key = page.checks[j].key => i = j
  /\ page.pendingChecks = {page.checks[i].key : i \in DOMAIN page.checks}

\* C39: every film tile, and the header of a single-film page, carries at
\* most one availability indicator.
OneIndicator ==
  \A e \in DOMAIN page.indicators : page.indicators[e] <= 1

\* C34: a search title of one word scores below the threshold against a
\* candidate that is the word followed by a blank and a different word, and
\* 'Lucky' reaches the threshold against 'Lucky (2017)'.
SingleWordRejectsOtherWord ==
  Applied =>
    LET word == input.title1
        candidate == input.title2
        IsWord(w) == Len(w) > 2 /\ \A i \in DOMAIN w : IsLetter(w[i])
    IN /\ (IsWord(word) /\ candidate = word \o <<" ", "(", "2", "0", "1", "7", ")">>)
            => Geq(output.value, Num(MATCH_THRESHOLD))
       /\ \A k \in DOMAIN candidate :
            (/\ IsWord(word)
             /\ SubSeq(candidate, 1, k - 1) = word
             /\ candidate[k] = " "
             /\ IsWord(SubSeq(candidate, k + 1, Len(candidate)))
             /\ SubSeq(candidate, k + 1, Len(candidate)) # word)
            => ~Geq(output.value, Num(MATCH_THRESHOLD))

\* No run of more than two characters other than blanks is left when the
\* punctuation of the title is stripped.
ShortTokensOnly(title) ==
  LET s == PunctuationStripped(title) IN
  \A i \in 1..(Len(s) - 2) : s[i] = " " \/ s[i + 1] = " " \/ s[i + 2] = " "

\* C40: a search title without a token longer than two characters reaches the
\* threshold against a candidate exactly when the two are equal after the
\* case is ignored, the punctuation stripped and the whitespace normalized;
\* the title followed by a year does not reach it.
ShortTitleMatchesOnlyItself ==
  (Applied /\ ShortTokensOnly(input.title1)) =>
    (Geq(output.value, Num(MATCH_THRESHOLD))
       <=> StrippedEqual(input.title1, input.title2))

\* 'Up' has been scored against 'Up (2009)'.
ShortTitleMatchesOnlyItselfWitness ==
  /\ Applied
  /\ input.title1 = <<"U", "p">>
  /\ input.title2 = <<"U", "p", " ", "(", "2", "0", "0", "9", ")">>
  /\ output.value = Num(0)

\* C37: while a caller is queued every slot is taken, and activeRequests is
\* never negative and equals the number of performSearch calls that have
\* acquired a slot and not yet released it.
QueuedOnlyWhenFull ==
  /\ requestQueue # << >> => activeRequests = MAX_CONCURRENT_REQUESTS
  /\ activeRequests >= 0
  /\ activeRequests = Cardinality(holders)

\* A release has handed its slot to the first queued caller while another
\* caller is still queued.
QueuedOnlyWhenFullWitness ==
  /\ requestQueue # << >>
  /\ activeRequests = MAX_CONCURRENT_REQUESTS
  /\ \E c, d \in Calls :
       /\ released[c] > 0
       /\ d \in holders /\ d # c /\ pc[d] \in {"delay", "fetching"}

\* C36: the result stored under a cache key stays the stored result (no
\* entry is evicted here): a call that arrives for the key returns it, and a
\* duplicate query that was in flight when it was stored does not replace it.
StoredResultKept ==
  [][/\ \A k \in DOMAIN searchCache :
          k \in DOMAIN searchCache' /\ searchCache'[k] = searchCache[k]
     /\ \A c \in Calls :
          (/\ pc[c] = "idle" /\ pc'[c] # "idle"
           /\ HasTitle(query'[c])
           /\ cacheKey(query'[c].title, query'[c].year) \in DOMAIN searchCache)
          => result'[c] = searchCache[cacheKey(query'[c].title, query'[c].year)]]_vars

\* C35: a live session is marked dead only by searchFilm on a session-expired
\* result, or by an expiry timer when the full lifetime has passed since the
\* latest successful handshake: the timer of an earlier handshake does not
\* mark a later session dead.
SessionLivesFullLifetime ==
  [][(sessionInitialized /\ ~sessionInitialized') =>
       \/ \E c \in Calls :
            /\ Len(outcomes'[c]) = Len(outcomes[c]) + 1
            /\ IsSessionExpired(outcomes'[c][Len(outcomes'[c])])
       \/ now >= expiryTimers[Len(expiryTimers)]]_vars

====
